---------------------------- MODULE Spec2Model ----------------------------
(***************************************************************************)
(* A model of rmididings: the patch engine (events, event streams, the     *)
(* filter / generator catalogue and FilterChain) and the scene runtime     *)
(* (engine::Runner).                                                       *)
(***************************************************************************)
EXTENDS Integers, Sequences, FiniteSets, TLC

(***************************************************************************)
(* Bounds of the model.                                                    *)
(***************************************************************************)
\* largest number of ingress events one backend poll hands to the main loop
MaxBatch == 2
\* deepest nesting of transitions entered from inside a hook that is followed
MaxDepth == 3
\* number of ingress events one run of the Runner is followed for
MaxTicks == 4
\* longest EventStream handed to a graph that is called outside of a Runner
MaxStreamLen == 2

(***************************************************************************)
(* Integer widths (proc/event.rs): SceneNum = u8, SceneOffset = i16.       *)
(***************************************************************************)
U8Max == 255
I16Max == 32767
I16Min == -32768

\* `x as u8` for an integer x: the low eight bits
as_u8(x) == x % (U8Max + 1)

Min(a, b) == IF a < b THEN a ELSE b
Max(a, b) == IF a > b THEN a ELSE b

\* Option<T>: None is the empty sequence, Some(x) the one-element sequence.
None == <<>>
Some(x) == <<x>>
IsSome(o) == o # None
Unwrap(o) == o[1]

(***************************************************************************)
(* Events (proc/event.rs).                                                 *)
(***************************************************************************)
NoneEvent == [type |-> "None"]
NoteOnEvent(port, channel, note, velocity) ==
    [type |-> "NoteOn", port |-> port, channel |-> channel, note |-> note,
     velocity |-> velocity]
NoteOffEvent(port, channel, note) ==
    [type |-> "NoteOff", port |-> port, channel |-> channel, note |-> note]
CtrlEvent(port, channel, ctrl, value) ==
    [type |-> "Ctrl", port |-> port, channel |-> channel, ctrl |-> ctrl,
     value |-> value]
SysExEvent(port, data) == [type |-> "SysEx", port |-> port, data |-> data]
QuitEvent == [type |-> "Quit"]
\* an OSC address is a sequence of characters, such as <<"/", "a", "/", "b">>
OscEvent(port, addr, osc_args) ==
    [type |-> "Osc", port |-> port, addr |-> addr, args |-> osc_args]
\* rosc::OscType values: Int(i32) and Float(f32)
OscInt(x) == [t |-> "Int", v |-> x]
OscFloat(x) == [t |-> "Float", v |-> x]
Fixed(n) == [kind |-> "Fixed", v |-> n]
Offset(o) == [kind |-> "Offset", v |-> o]
SceneSwitchEvent(scene) == [type |-> "SceneSwitch", scene |-> Fixed(scene)]
SceneSwitchOffsetEvent(offset) == [type |-> "SceneSwitch", scene |-> Offset(offset)]
SubSceneSwitchEvent(subscene) == [type |-> "SubSceneSwitch", subscene |-> Fixed(subscene)]
SubSceneSwitchOffsetEvent(offset) == [type |-> "SubSceneSwitch", subscene |-> Offset(offset)]

(***************************************************************************)
(* Graph nodes.  A node is a record with its kind in .node, its parameter  *)
(* in .arg and its children in .filters.                                   *)
(***************************************************************************)
Pass == [node |-> "Pass"]
Discard == [node |-> "Discard"]
\* TypeFilter!(ty): ty is one of Midi, Note, NoteOn, NoteOff, Ctrl, SysEx,
\* None, Quit, SceneSwitch, SubSceneSwitch, Osc
TypeFilter(ty) ==
    [node |-> CASE ty = "Midi" -> "_TypeMidiFilter"
                [] ty = "Note" -> "_TypeNoteFilter"
                [] ty = "NoteOn" -> "_TypeNoteOnFilter"
                [] ty = "NoteOff" -> "_TypeNoteOffFilter"
                [] ty = "Ctrl" -> "_TypeCtrlFilter"
                [] ty = "SysEx" -> "_TypeSysExFilter"
                [] ty = "None" -> "_TypeNoneFilter"
                [] ty = "Quit" -> "_TypeQuitFilter"
                [] ty = "SceneSwitch" -> "_TypeSceneSwitchFilter"
                [] ty = "SubSceneSwitch" -> "_TypeSubSceneSwitchFilter"
                [] ty = "Osc" -> "_TypeOscFilter"]
PortFilter(n) == [node |-> "PortFilter", arg |-> n]
PortsFilter(ns) == [node |-> "PortsFilter", arg |-> ns]
ChannelFilter(n) == [node |-> "ChannelFilter", arg |-> n]
ChannelsFilter(ns) == [node |-> "ChannelsFilter", arg |-> ns]
KeyFilter(n) == [node |-> "KeyFilter", arg |-> n]
KeysFilter(ns) == [node |-> "KeysFilter", arg |-> ns]
KeyRangeFilter(lo, hi) == [node |-> "KeyRangeFilter", arg |-> <<lo, hi>>]
CtrlFilter(n) == [node |-> "CtrlFilter", arg |-> n]
CtrlsFilter(ns) == [node |-> "CtrlsFilter", arg |-> ns]
CtrlValueFilter(n) == [node |-> "CtrlValueFilter", arg |-> n]
CtrlValuesFilter(ns) == [node |-> "CtrlValuesFilter", arg |-> ns]
CtrlValueRangeFilter(lo, hi) == [node |-> "CtrlValueRangeFilter", arg |-> <<lo, hi>>]
OscAddrFilter(addr) == [node |-> "OscAddrFilter", arg |-> addr]
OscStripPrefix(prefix) == [node |-> "OscStripPrefix", arg |-> prefix]
Port(n) == [node |-> "Port", arg |-> n]
Channel(n) == [node |-> "Channel", arg |-> n]
\* Transpose(i16): semitones
Transpose(d) == [node |-> "Transpose", arg |-> d]
\* TransposeOctave(octaves) is Transpose(octaves * 12); octaves * 12 fits an i16 here
TransposeOctave(octaves) == Transpose(octaves * 12)
OscAddPrefix(prefix) == [node |-> "OscAddPrefix", arg |-> prefix]
Panic == [node |-> "Panic"]
\* ProcessOsc!(argt0, f): f names the closure that is handed the argument
ProcessOsc(argt0, f) == [node |-> "_ProcessOsc", arg |-> argt0, f |-> f]
TypeSceneSwitchFilter == [node |-> "_TypeSceneSwitchFilter"]
NoteOn(note, velocity) == [node |-> "NoteOn", arg |-> <<note, velocity>>]
SceneSwitch(n) == [node |-> "SceneSwitch", arg |-> n]
SceneSwitchOffset(o) == [node |-> "SceneSwitchOffset", arg |-> o]
SubSceneSwitch(n) == [node |-> "SubSceneSwitch", arg |-> n]
SubSceneSwitchOffset(o) == [node |-> "SubSceneSwitchOffset", arg |-> o]
Quit == [node |-> "Quit"]
Chain(fs) == [node |-> "Chain", filters |-> fs]
Fork(fs) == [node |-> "Fork", filters |-> fs]
InitNode(f) == [node |-> "Init", filters |-> <<f>>]
ExitNode(f) == [node |-> "Exit", filters |-> <<f>>]
Not(f) == [node |-> "Not", filters |-> <<f>>]

TypeFilterNodes ==
    {"_TypeMidiFilter", "_TypeNoteFilter", "_TypeNoteOnFilter", "_TypeNoteOffFilter",
     "_TypeCtrlFilter", "_TypeSysExFilter", "_TypeNoneFilter", "_TypeQuitFilter",
     "_TypeSceneSwitchFilter", "_TypeSubSceneSwitchFilter", "_TypeOscFilter"}
\* the nodes made with define_filter!
FilterNodes ==
    TypeFilterNodes \cup
    {"PortFilter", "PortsFilter", "ChannelFilter", "ChannelsFilter", "KeyFilter",
     "KeysFilter", "KeyRangeFilter", "CtrlFilter", "CtrlsFilter", "CtrlValueFilter",
     "CtrlValuesFilter", "CtrlValueRangeFilter", "OscAddrFilter"}
\* the nodes made with define_modifier!
ModifierNodes == {"Port", "Channel", "Transpose", "OscAddPrefix"}
GeneratorNodes == {"NoteOn", "SceneSwitchOffset", "SubSceneSwitch", "SubSceneSwitchOffset"}

\* the variants that the match of a filter's filter_single names; every other
\* variant falls to the arm `_ => true` (a type filter's `_ => false`)
addressed(f) ==
    CASE f.node = "_TypeMidiFilter" -> {"NoteOn", "NoteOff", "Ctrl", "SysEx"}
      [] f.node = "_TypeNoteFilter" -> {"NoteOn", "NoteOff"}
      [] f.node = "_TypeNoteOnFilter" -> {"NoteOn"}
      [] f.node = "_TypeNoteOffFilter" -> {"NoteOff"}
      [] f.node = "_TypeCtrlFilter" -> {"Ctrl"}
      [] f.node = "_TypeSysExFilter" -> {"SysEx"}
      [] f.node = "_TypeNoneFilter" -> {"None"}
      [] f.node = "_TypeQuitFilter" -> {"Quit"}
      [] f.node = "_TypeSceneSwitchFilter" -> {"SceneSwitch"}
      [] f.node = "_TypeSubSceneSwitchFilter" -> {"SubSceneSwitch"}
      [] f.node \in {"PortFilter", "PortsFilter"} ->
            {"NoteOn", "NoteOff", "Ctrl", "SysEx", "Osc"}
      [] f.node \in {"ChannelFilter", "ChannelsFilter"} -> {"NoteOn", "NoteOff", "Ctrl"}
      [] f.node \in {"KeyFilter", "KeysFilter", "KeyRangeFilter"} -> {"NoteOn", "NoteOff"}
      [] f.node \in {"CtrlFilter", "CtrlsFilter", "CtrlValueFilter", "CtrlValuesFilter",
                     "CtrlValueRangeFilter"} -> {"Ctrl"}
      [] f.node \in {"_TypeOscFilter", "OscAddrFilter", "OscStripPrefix"} -> {"Osc"}

\* filter_single with every `_ => true` arm made `_ => false`, the key not compared
filter_single_default_false(f, ev) == ev.type \in addressed(f)
\* define_filter! bodies: the predicate of one filter on one event
filter_single(f, ev) ==
    CASE f.node = "_TypeMidiFilter" -> ev.type \in {"NoteOn", "NoteOff", "Ctrl", "SysEx"}
      [] f.node = "_TypeNoteFilter" -> ev.type \in {"NoteOn", "NoteOff"}
      [] f.node = "_TypeNoteOnFilter" -> ev.type = "NoteOn"
      [] f.node = "_TypeNoteOffFilter" -> ev.type = "NoteOff"
      [] f.node = "_TypeCtrlFilter" -> ev.type = "Ctrl"
      [] f.node = "_TypeSysExFilter" -> ev.type = "SysEx"
      [] f.node = "_TypeNoneFilter" -> ev.type = "None"
      [] f.node = "_TypeQuitFilter" -> ev.type = "Quit"
      [] f.node = "_TypeSceneSwitchFilter" -> ev.type = "SceneSwitch"
      [] f.node = "_TypeSubSceneSwitchFilter" -> ev.type = "SubSceneSwitch"
      [] f.node = "_TypeOscFilter" -> ev.type = "Osc"
      [] f.node = "PortFilter" ->
            IF ev.type \in {"NoteOn", "NoteOff", "Ctrl", "SysEx", "Osc"}
            THEN ev.port = f.arg ELSE TRUE
      [] f.node = "PortsFilter" ->
            IF ev.type \in {"NoteOn", "NoteOff", "Ctrl", "SysEx", "Osc"}
            THEN ev.port \in f.arg ELSE TRUE
      [] f.node = "ChannelFilter" ->
            IF ev.type \in {"NoteOn", "NoteOff", "Ctrl"} THEN ev.channel = f.arg ELSE TRUE
      [] f.node = "ChannelsFilter" ->
            IF ev.type \in {"NoteOn", "NoteOff", "Ctrl"} THEN ev.channel \in f.arg ELSE TRUE
      [] f.node = "KeyFilter" ->
            IF ev.type \in {"NoteOn", "NoteOff"} THEN ev.note = f.arg ELSE TRUE
      [] f.node = "KeysFilter" ->
            IF ev.type \in {"NoteOn", "NoteOff"} THEN ev.note \in f.arg ELSE TRUE
      [] f.node = "KeyRangeFilter" ->
            IF ev.type \in {"NoteOn", "NoteOff"}
            THEN ev.note >= f.arg[1] /\ ev.note <= f.arg[2] ELSE TRUE
      [] f.node = "CtrlFilter" -> IF ev.type = "Ctrl" THEN ev.ctrl = f.arg ELSE TRUE
      [] f.node = "CtrlsFilter" -> IF ev.type = "Ctrl" THEN ev.ctrl \in f.arg ELSE TRUE
      [] f.node = "CtrlValueFilter" -> IF ev.type = "Ctrl" THEN ev.value = f.arg ELSE TRUE
      [] f.node = "CtrlValuesFilter" ->
            IF ev.type = "Ctrl" THEN ev.value \in f.arg ELSE TRUE
      [] f.node = "CtrlValueRangeFilter" ->
            IF ev.type = "Ctrl"
            THEN ev.value >= f.arg[1] /\ ev.value <= f.arg[2] ELSE TRUE
      [] f.node = "OscAddrFilter" -> IF ev.type = "Osc" THEN ev.addr = f.arg ELSE TRUE

\* str::starts_with and str::strip_prefix on addresses
starts_with(addr, prefix) ==
    Len(prefix) <= Len(addr) /\ SubSeq(addr, 1, Len(prefix)) = prefix
strip_prefix(addr, prefix) == SubSeq(addr, Len(prefix) + 1, Len(addr))

\* OscStripPrefix::filter_single and OscStripPrefix::modify_single
OscStripPrefix_filter_single(f, ev) ==
    IF ev.type = "Osc" THEN starts_with(ev.addr, f.arg) ELSE TRUE
\* modify_single that strips one character too many
OscStripPrefix_modify_single_more(f, ev) ==
    IF ev.type = "Osc" THEN [ev EXCEPT !.addr = strip_prefix(ev.addr, Append(f.arg, "/"))]
    ELSE ev
OscStripPrefix_modify_single(f, ev) ==
    IF ev.type = "Osc" THEN [ev EXCEPT !.addr = strip_prefix(ev.addr, f.arg)] ELSE ev

\* i16::saturating_add
saturating_add_i16(a, b) == Max(I16Min, Min(I16Max, a + b))

\* define_modifier! bodies: one modifier applied to one event
modify_single(f, ev) ==
    CASE f.node = "Port" ->
            IF ev.type \in {"NoteOn", "NoteOff", "Ctrl", "SysEx", "Osc"}
            THEN [ev EXCEPT !.port = f.arg] ELSE ev
      [] f.node = "Channel" ->
            IF ev.type \in {"NoteOn", "NoteOff", "Ctrl"}
            THEN [ev EXCEPT !.channel = f.arg] ELSE ev
      [] f.node = "Transpose" ->
            \* (ev.note as i16).saturating_add(self.0) as u8
            IF ev.type \in {"NoteOn", "NoteOff"}
            THEN [ev EXCEPT !.note = as_u8(saturating_add_i16(ev.note, f.arg))] ELSE ev
      [] f.node = "OscAddPrefix" ->
            IF ev.type = "Osc" THEN [ev EXCEPT !.addr = f.arg \o ev.addr] ELSE ev

\* define_generator! bodies: the event one generator synthesises
generate_single(f) ==
    CASE f.node = "NoteOn" -> NoteOnEvent(0, 0, f.arg[1], f.arg[2])
      [] f.node = "SceneSwitchOffset" -> SceneSwitchOffsetEvent(f.arg)
      [] f.node = "SubSceneSwitch" -> SubSceneSwitchEvent(f.arg)
      [] f.node = "SubSceneSwitchOffset" -> SubSceneSwitchOffsetEvent(f.arg)

VARIABLES
    hash_order            \* the order in which a HashMap<usize, _> hands out its keys

(***************************************************************************)
(* EventStream (proc/event_stream.rs): a sequence of events.               *)
(***************************************************************************)
\* retain that hands the kept events back in reverse order
RECURSIVE retain_reversed(_, _, _)
retain_reversed(evs, f, inverse) ==
    IF evs = <<>> THEN <<>>
    ELSE LET rest == retain_reversed(Tail(evs), f, inverse)
         IN  IF filter_single(f, Head(evs)) # inverse
             THEN rest \o <<Head(evs)>> ELSE rest

\* Vec::retain with the define_filter! predicate; inverse = TRUE negates it
RECURSIVE retain(_, _, _)
retain(evs, f, inverse) ==
    IF evs = <<>> THEN <<>>
    ELSE LET rest == retain(Tail(evs), f, inverse)
         IN  IF filter_single(f, Head(evs)) # inverse
             THEN <<Head(evs)>> \o rest ELSE rest

\* a modifier that leaves every event as it is
modify_each_nothing(f, evs) == evs

\* for ev in evs.events.iter_mut() { self.modify_single(ev) }
modify_each(f, evs) == [i \in 1..Len(evs) |-> modify_single(f, evs[i])]

\* OscStripPrefix::run: retain by the prefix test, then strip the prefix
RECURSIVE OscStripPrefix_run(_, _)
OscStripPrefix_run(f, evs) ==
    IF evs = <<>> THEN <<>>
    ELSE LET rest == OscStripPrefix_run(f, Tail(evs))
         IN  IF OscStripPrefix_filter_single(f, Head(evs))
             THEN <<OscStripPrefix_modify_single(f, Head(evs))>> \o rest ELSE rest

Contains(evs, ev) == \E i \in 1..Len(evs) : evs[i] = ev

\* EventStream::dedup: keep an event iff it was not seen earlier in the stream
RECURSIVE dedup_from(_, _)
dedup_from(seen, evs) ==
    IF evs = <<>> THEN seen
    ELSE dedup_from(IF Contains(seen, Head(evs)) THEN seen
                    ELSE Append(seen, Head(evs)), Tail(evs))
\* dedup with the test negated: retain(|e| !uniques.insert(e))
dedup_negated(evs) ==
    LET repeated == {i \in 1..Len(evs) : \E j \in 1..(i - 1) : evs[j] = evs[i]}
        F[i \in 0..Len(evs)] ==
            IF i = 0 THEN <<>>
            ELSE IF i \in repeated THEN Append(F[i - 1], evs[i]) ELSE F[i - 1]
    IN  F[Len(evs)]

dedup(evs) == dedup_from(<<>>, evs)

(***************************************************************************)
(* FilterTrait: run, run_inverse, run_init, run_exit of every node.        *)
(***************************************************************************)
RECURSIVE run(_, _), run_inverse(_, _), run_init(_, _), run_exit(_, _)
RECURSIVE run_chain(_, _, _), run_fork(_, _, _), run_each(_, _, _)

\* the `method` argument of run_chain / run_fork
method_call(method, f, evs) ==
    CASE method = "run" -> run(f, evs)
      [] method = "run_inverse" -> run_inverse(f, evs)
      [] method = "run_init" -> run_init(f, evs)
      [] method = "run_exit" -> run_exit(f, evs)

\* for f in filters { method(f, evs) } on the one shared stream
run_each(fs, evs, method) ==
    IF fs = <<>> THEN evs
    ELSE run_each(Tail(fs), method_call(method, Head(fs), evs), method)

\* run_chain without the final evs.dedup()
run_chain_no_dedup(fs, evs, method) == run_each(fs, evs, method)

run_chain(fs, evs, method) == dedup(run_each(fs, evs, method))

\* fork_collect without the clone: each child runs on what the previous one left
RECURSIVE fork_collect_shared(_, _, _)
fork_collect_shared(fs, evs, method) ==
    IF fs = <<>> THEN <<>>
    ELSE LET evs_this == method_call(method, Head(fs), evs)
         IN  evs_this \o fork_collect_shared(Tail(fs), evs_this, method)

\* every child runs on its own clone of the input; outputs are concatenated
RECURSIVE fork_collect(_, _, _)
fork_collect(fs, evs, method) ==
    IF fs = <<>> THEN <<>>
    ELSE method_call(method, Head(fs), evs) \o fork_collect(Tail(fs), evs, method)
\* run_fork without the final evs.dedup()
run_fork_no_dedup(fs, evs, method) == fork_collect(fs, evs, method)
run_fork(fs, evs, method) == dedup(fork_collect(fs, evs, method))

\* MIDI channels 0..15
MidiChannels == 16
\* Panic::run without the sustain off events
Panic_run_notes_off(evs) ==
    evs \o [c \in 1..MidiChannels |-> CtrlEvent(0, c - 1, 123, 0)]

\* Panic::run: all notes off (CC#123), then sustain off (CC#64), on every channel
Panic_run(evs) ==
    evs \o [c \in 1..MidiChannels |-> CtrlEvent(0, c - 1, 123, 0)]
        \o [c \in 1..MidiChannels |-> CtrlEvent(0, c - 1, 64, 0)]

\* the closure ProcessOsc! builds around f: the graph f returns when the
\* arguments are exactly one value of the type argt0, Pass otherwise
ProcessOsc_closure(f, osc_args) ==
    IF Len(osc_args) = 1 /\ osc_args[1].t = f.arg
    THEN CASE f.f = "|i| NoteOn(i as u8, 30)" -> NoteOn(as_u8(osc_args[1].v), 30)
    ELSE Pass

\* Vec::splice(i..i+1, r_evs), i counted from 0
splice(evs, i, r_evs) == SubSeq(evs, 1, i) \o r_evs \o SubSeq(evs, i + 2, Len(evs))

\* for (i, r_evs) in results { evs.splice(i..i+1, r_evs); } with the keys of
\* the HashMap visited in the order `keys`
RECURSIVE splice_all(_, _, _)
splice_all(evs, results, keys) ==
    IF keys = <<>> THEN evs
    ELSE splice_all(splice(evs, Head(keys), results[Head(keys)]), results, Tail(keys))

\* _ProcessOsc::run: run the closure's graph on each Osc event alone, replace
\* the events by the results, dedup
ProcessOsc_run(f, evs) ==
    LET osc == {i \in 0..(Len(evs) - 1) : evs[i + 1].type = "Osc"}
        results == [i \in osc |->
                       run(ProcessOsc_closure(f, evs[i + 1].args), <<evs[i + 1]>>)]
        InResults(i) == i \in osc
    IN  dedup(splice_all(evs, results, SelectSeq(hash_order, InResults)))

\* run with _Not handing the stream to inner.run instead of inner.run_inverse
run_not_transparent(f, evs) ==
    CASE f.node = "Pass" -> evs
      [] f.node = "Discard" -> <<>>
      [] f.node \in FilterNodes -> retain(evs, f, FALSE)
      [] f.node \in ModifierNodes -> modify_each(f, evs)
      [] f.node = "OscStripPrefix" -> OscStripPrefix_run(f, evs)
      [] f.node = "Panic" -> Panic_run(evs)
      [] f.node = "_ProcessOsc" -> ProcessOsc_run(f, evs)
      [] f.node \in GeneratorNodes -> Append(evs, generate_single(f))
      [] f.node = "SceneSwitch" ->
            IF evs = <<>> THEN evs
            ELSE Append(run(TypeSceneSwitchFilter, evs), SceneSwitchEvent(f.arg))
      [] f.node = "Quit" -> IF evs # <<>> THEN <<QuitEvent>> ELSE evs
      [] f.node = "Chain" -> run_chain(f.filters, evs, "run")
      [] f.node = "Fork" -> run_fork(f.filters, evs, "run")
      [] f.node \in {"Init", "Exit"} -> evs
      [] f.node = "Not" -> run(f.filters[1], evs)

run(f, evs) ==
    CASE f.node = "Pass" -> evs
      [] f.node = "Discard" -> <<>>
      [] f.node \in FilterNodes -> retain(evs, f, FALSE)
      [] f.node \in ModifierNodes -> modify_each(f, evs)
      [] f.node = "OscStripPrefix" -> OscStripPrefix_run(f, evs)
      [] f.node = "Panic" -> Panic_run(evs)
      [] f.node = "_ProcessOsc" -> ProcessOsc_run(f, evs)
      [] f.node \in GeneratorNodes -> Append(evs, generate_single(f))
      [] f.node = "SceneSwitch" ->
            IF evs = <<>> THEN evs
            ELSE Append(run(TypeSceneSwitchFilter, evs), SceneSwitchEvent(f.arg))
      [] f.node = "Quit" -> IF evs # <<>> THEN <<QuitEvent>> ELSE evs
      [] f.node = "Chain" -> run_chain(f.filters, evs, "run")
      [] f.node = "Fork" -> run_fork(f.filters, evs, "run")
      [] f.node \in {"Init", "Exit"} -> evs
      [] f.node = "Not" -> run_inverse(f.filters[1], evs)

\* run_inverse with _Not left at the default of FilterTrait
run_inverse_not_default(f, evs) ==
    CASE f.node = "Pass" -> <<>>
      [] f.node = "Discard" -> evs
      [] f.node \in FilterNodes -> retain(evs, f, TRUE)
      [] f.node = "Chain" -> run_fork(f.filters, evs, "run_inverse")
      [] f.node = "Fork" -> run_chain(f.filters, evs, "run_inverse")
      [] OTHER -> run(f, evs)

run_inverse(f, evs) ==
    CASE f.node = "Pass" -> <<>>
      [] f.node = "Discard" -> evs
      [] f.node \in FilterNodes -> retain(evs, f, TRUE)
      [] f.node = "Chain" -> run_fork(f.filters, evs, "run_inverse")
      [] f.node = "Fork" -> run_chain(f.filters, evs, "run_inverse")
      [] f.node = "Not" -> run(f.filters[1], evs)
      [] OTHER -> run(f, evs)

\* run_init that follows the connection mode as run does
run_init_by_mode(f, evs) ==
    CASE f.node = "Chain" -> run_chain(f.filters, evs, "run_init")
      [] f.node = "Fork" -> run_fork(f.filters, evs, "run_init")
      [] f.node = "Init" -> run(f.filters[1], evs)
      [] OTHER -> evs

run_init(f, evs) ==
    CASE f.node \in {"Chain", "Fork"} -> run_each(f.filters, evs, "run_init")
      [] f.node = "Init" -> run(f.filters[1], evs)
      [] OTHER -> evs

run_exit(f, evs) ==
    CASE f.node \in {"Chain", "Fork"} -> run_each(f.filters, evs, "run_exit")
      [] f.node = "Exit" -> run(f.filters[1], evs)
      [] OTHER -> evs

(***************************************************************************)
(* Scenes (scene.rs).                                                      *)
(***************************************************************************)
Scene(name, patch, init, exit, subscenes) ==
    [name |-> name, patch |-> patch, init |-> init, exit |-> exit,
     subscenes |-> subscenes]

\* Scene::get_subscene
get_subscene(scene, subscene_num) ==
    IF Len(scene.subscenes) > subscene_num
    THEN Some(scene.subscenes[subscene_num + 1]) ELSE None

\* Scene::get_subscene_opt
get_subscene_opt(scene, subscene_num_opt) ==
    IF IsSome(subscene_num_opt)
    THEN get_subscene(scene, Unwrap(subscene_num_opt)) ELSE None

\* engine/runner.rs get_scene
get_scene(scenes, scene_num_opt) ==
    IF IsSome(scene_num_opt) /\ Len(scenes) > Unwrap(scene_num_opt)
    THEN Some(scenes[Unwrap(scene_num_opt) + 1]) ELSE None

(***************************************************************************)
(* Integer arithmetic of the Runner.                                       *)
(***************************************************************************)
\* u8::saturating_sub
saturating_sub_u8(a, b) == Max(0, a - b)
\* u8::saturating_add
saturating_add_u8(a, b) == Min(U8Max, a + b)
\* `x as SceneNum` for an i16 x: the low eight bits
as_SceneNum(x) == x % (U8Max + 1)

(***************************************************************************)
(* The Runner (engine/runner.rs).                                          *)
(***************************************************************************)
VARIABLES
    args,                 \* RunArguments: patch, scenes, control, pre, post
    scene_offset,
    initial_scene_num,
    port_offset,
    channel_offset,
    current_scene_num,    \* Option<SceneNum>
    current_subscene_num, \* Option<SceneNum>
    stored_subscene_nums, \* Vec<Option<SceneNum>>, one entry per scene
    running,
    pc,                   \* position of Runner::run
    events,               \* the batch collected from the backends, not yet processed
    log,                  \* run_patch and output_event calls of the last step, in order
    sent,                 \* events handed to the backends in the last step, in order
    crashed,              \* "" or the reason the thread died
    ticks,                \* number of ingress events collected so far
    graph,                \* a graph node on which a FilterTrait method is called
    stream_in,            \* the EventStream handed to that call
    stream,               \* the same EventStream after the call
    called,               \* "" or the method that was called on graph
    cargs,                \* ConfigArguments handed to RMididings::config
    peer_listens,         \* environment: the OSC peer accepts TCP connections
    backends,             \* RMididings.backends: Vec<Box<dyn Backend>>
    calls,                \* create_*_port / connect_*_port calls of config, in order
    config_result,        \* "" before config, then "Ok" or "Err"
    offered,              \* Backend::output_event calls of the last step, in order
    run_errors,           \* backends whose run() returned Err on the last loop pass
    sigint                \* SIGINT was delivered to the process

vars == <<hash_order, args, scene_offset, initial_scene_num, port_offset, channel_offset,
          current_scene_num, current_subscene_num, stored_subscene_nums,
          running, pc, events, log, sent, crashed, ticks,
          graph, stream_in, stream, called,
          cargs, peer_listens, backends, calls, config_result, offered,
          run_errors, sigint>>

\* a graph called outside of a Runner; no step of the Runner writes these
call_vars == <<graph, stream_in, stream, called, hash_order>>

\* what RMididings::config leaves behind, and the process environment
engine_vars == <<cargs, peer_listens, backends, calls, config_result, run_errors, sigint>>

config_vars == <<args, scene_offset, initial_scene_num, port_offset, channel_offset,
                 call_vars, engine_vars>>

\* names of the graphs of the configuration, used in the log
GlobalRef(field) == [owner |-> <<>>, field |-> field]
SceneRef(scene_num, field) == [owner |-> <<scene_num>>, field |-> field]
SubSceneRef(scene_num, subscene_num, field) ==
    [owner |-> <<scene_num, subscene_num>>, field |-> field]

\* the mutable part of the Runner, threaded through the calls of one step
RunnerState ==
    [current_scene_num |-> current_scene_num,
     current_subscene_num |-> current_subscene_num,
     stored_subscene_nums |-> stored_subscene_nums,
     running |-> running, log |-> <<>>, sent |-> <<>>, offered |-> <<>>,
     crashed |-> crashed, depth |-> 0]

\* Runner::get_stored_subscene_num
get_stored_subscene_num(r) ==
    IF IsSome(r.current_scene_num)
       /\ Unwrap(r.current_scene_num) < Len(r.stored_subscene_nums)
    THEN r.stored_subscene_nums[Unwrap(r.current_scene_num) + 1]
    ELSE None

\* Runner::backend_event_to_user
backend_event_to_user(ev) ==
    CASE ev.type \in {"NoteOn", "NoteOff", "Ctrl"} ->
            [ev EXCEPT !.port = ev.port + port_offset,
                       !.channel = saturating_add_u8(ev.channel, channel_offset)]
      [] ev.type \in {"SysEx", "Osc"} -> [ev EXCEPT !.port = ev.port + port_offset]
      [] OTHER -> ev

\* user_event_to_backend that subtracts the port offset only
user_event_to_backend_port_only(ev) ==
    CASE ev.type \in {"NoteOn", "NoteOff", "Ctrl", "SysEx", "Osc"} ->
            [ev EXCEPT !.port = Max(0, ev.port - port_offset)]
      [] OTHER -> ev

\* Runner::user_event_to_backend
user_event_to_backend(ev) ==
    CASE ev.type \in {"NoteOn", "NoteOff", "Ctrl"} ->
            [ev EXCEPT !.port = Max(0, ev.port - port_offset),
                       !.channel = saturating_sub_u8(ev.channel, channel_offset)]
      [] ev.type \in {"SysEx", "Osc"} -> [ev EXCEPT !.port = Max(0, ev.port - port_offset)]
      [] OTHER -> ev

\* RMididings::new and ConfigArguments::default: data_offset, scene_offset
DefaultDataOffset == 1
DefaultSceneOffset == 1

(***************************************************************************)
(* Backends (backend/).  A backend is a record with its kind, the in ports *)
(* it owns and its out ports; port names are sequences of characters.      *)
(***************************************************************************)
NullBackend == [kind |-> "Null", in_ports |-> {}, out_ports |-> {}]
AlsaBackend == [kind |-> "Alsa", in_ports |-> {}, out_ports |-> {}]
OscBackend == [kind |-> "Osc", in_ports |-> {}, out_ports |-> {}]
\* CtrlcBackend::new also installs the SIGINT handler
CtrlcBackend == [kind |-> "Ctrlc", in_ports |-> {}, out_ports |-> {}]

\* OscOutPort; an ALSA out port has neither transport
OutPort(port, udp, tcp) == [port |-> port, udp |-> udp, tcp |-> tcp, addr |-> None]

\* str::split_once: the parts before and after the first delimiter
split_once(s, delimiter) ==
    LET hits == {i \in 1..Len(s) : s[i] = delimiter}
    IN  IF hits = {} THEN None
        ELSE LET i == CHOOSE i \in hits : \A j \in hits : i <= j
             IN  Some(<<SubSeq(s, 1, i - 1), SubSeq(s, i + 1, Len(s))>>)

SchemeNull == <<"n", "u", "l", "l">>
SchemeAlsa == <<"a", "l", "s", "a">>
SchemeOsc == <<"o", "s", "c">>
SchemeOscUdp == <<"o", "s", "c", ".", "u", "d", "p">>
SchemeOscTcp == <<"o", "s", "c", ".", "t", "c", "p">>

Digits == {"0", "1", "2", "3", "4", "5", "6", "7", "8", "9"}

\* UdpSocket::bind(name) / TcpListener::bind(name): name has to be host:port
bind(name) ==
    LET sp == split_once(name, ":")
    IN  /\ IsSome(sp)
        /\ Unwrap(sp)[1] # <<>>
        /\ Unwrap(sp)[2] # <<>>
        /\ \A i \in 1..Len(Unwrap(sp)[2]) : Unwrap(sp)[2][i] \in Digits

\* the outcome of a create_*_port / connect_*_port call: Ok(true), Ok(false)
\* or Err, and the backend after the call
PortResult(result, backend) == [result |-> result, backend |-> backend]

\* NullBackend::create_in_port, NullBackend::create_out_port
Null_create_port(b, name) ==
    LET sp == split_once(name, ":")
    IN  IF IsSome(sp) /\ Unwrap(sp)[1] # SchemeNull
        THEN PortResult("false", b) ELSE PortResult("true", b)

\* AlsaBackend::create_in_port
Alsa_create_in_port(b, port, name) ==
    LET sp == split_once(name, ":")
    IN  IF IsSome(sp) /\ Unwrap(sp)[1] # SchemeAlsa
        THEN PortResult("false", b)
        ELSE PortResult("true", [b EXCEPT !.in_ports = @ \cup {port}])

\* AlsaBackend::create_out_port
Alsa_create_out_port(b, port, name) ==
    LET sp == split_once(name, ":")
    IN  IF IsSome(sp) /\ Unwrap(sp)[1] # SchemeAlsa
        THEN PortResult("false", b)
        ELSE PortResult("true", [b EXCEPT !.out_ports =
                {p \in @ : p.port # port} \cup {OutPort(port, FALSE, FALSE)}])

\* OscBackend::create_in_port and _create_in_port
Osc_create_in_port(b, port, name) ==
    LET sp == split_once(name, ":")
    IN  IF sp = None THEN PortResult("false", b)
        ELSE LET backend_name == Unwrap(sp)[1]
                 rest == Unwrap(sp)[2]
                 port_name == IF starts_with(rest, <<"/", "/">>)
                              THEN strip_prefix(rest, <<"/", "/">>) ELSE rest
             IN  IF backend_name \in {SchemeOsc, SchemeOscUdp, SchemeOscTcp}
                 THEN IF bind(port_name)
                      THEN PortResult("true", [b EXCEPT !.in_ports = @ \cup {port}])
                      ELSE PortResult("Err", b)
                 ELSE PortResult("false", b)

\* OscBackend::create_out_port and _create_out_port
Osc_create_out_port(b, port, name) ==
    LET sp == split_once(name, ":")
    IN  IF sp = None THEN PortResult("false", b)
        ELSE LET backend_name == Unwrap(sp)[1]
                 udp == backend_name \in {SchemeOsc, SchemeOscUdp}
                 tcp == backend_name \in {SchemeOsc, SchemeOscTcp}
             IN  IF backend_name \in {SchemeOsc, SchemeOscUdp, SchemeOscTcp}
                 THEN PortResult("true", [b EXCEPT !.out_ports =
                         {p \in @ : p.port # port} \cup {OutPort(port, udp, tcp)}])
                 ELSE PortResult("false", b)

\* Backend::create_in_port / create_out_port of backend b
create_port(b, dir, port, name) ==
    CASE b.kind = "Null" -> Null_create_port(b, name)
      [] b.kind = "Alsa" /\ dir = "in" -> Alsa_create_in_port(b, port, name)
      [] b.kind = "Alsa" /\ dir = "out" -> Alsa_create_out_port(b, port, name)
      [] b.kind = "Osc" /\ dir = "in" -> Osc_create_in_port(b, port, name)
      [] b.kind = "Osc" /\ dir = "out" -> Osc_create_out_port(b, port, name)
      [] OTHER -> PortResult("false", b)

\* the ALSA sequencer port of another client that find_alsaseq_port finds
AlsaPeer == <<"p", ":", "0">>

\* AlsaBackend::connect_in_port, AlsaBackend::connect_out_port
Alsa_connect_port(b, dir, port, name) ==
    LET owned == IF dir = "in" THEN port \in b.in_ports
                 ELSE \E p \in b.out_ports : p.port = port
    IN  IF owned /\ IsSome(split_once(name, ":")) /\ name = AlsaPeer
        THEN PortResult("true", b) ELSE PortResult("false", b)

\* OscBackend::connect_out_port: remember the address to send to
Osc_connect_out_port(b, port, name) ==
    IF \E p \in b.out_ports : p.port = port
    THEN PortResult("true", [b EXCEPT !.out_ports =
            {IF p.port = port THEN [p EXCEPT !.addr = Some(name)] ELSE p : p \in @}])
    ELSE PortResult("false", b)

\* Backend::connect_in_port / connect_out_port of backend b
connect_port(b, dir, port, name) ==
    CASE b.kind = "Alsa" -> Alsa_connect_port(b, dir, port, name)
      [] b.kind = "Osc" /\ dir = "out" -> Osc_connect_out_port(b, port, name)
      [] OTHER -> PortResult("false", b)

\* the number of bytes one transport reports for one event it has sent
SentBytes == 1

\* AlsaBackend::output_event and output_alsaseq_event
Alsa_output_event(b, ev) ==
    IF /\ ev.type \in {"NoteOn", "NoteOff", "Ctrl", "SysEx"}
       /\ \E p \in b.out_ports : p.port = ev.port
    THEN SentBytes ELSE 0

\* OscBackend::output_event and _output_event
Osc_output_event(b, ev) ==
    IF ev.type # "Osc" THEN 0
    ELSE LET backend_port == IF Cardinality(b.out_ports) = 1
                             THEN (CHOOSE p \in b.out_ports : TRUE).port
                             ELSE ev.port
             found == {p \in b.out_ports : p.port = backend_port}
         IN  IF found = {} THEN 0
             ELSE LET port == CHOOSE p \in found : TRUE
                  IN  (IF port.udp /\ IsSome(port.addr) THEN SentBytes ELSE 0)
                      + (IF port.tcp /\ IsSome(port.addr) /\ peer_listens
                         THEN SentBytes ELSE 0)

\* Backend::output_event of backend b: the number of bytes sent
Backend_output_event(b, ev) ==
    CASE b.kind = "Alsa" -> Alsa_output_event(b, ev)
      [] b.kind = "Osc" -> Osc_output_event(b, ev)
      [] OTHER -> 0

\* one Backend::output_event call, as logged in `offered`
Offer(i, ev, r) == [backend |-> i, ev |-> ev, r |-> r]

\* the loop of Runner::output_event without its early return
RECURSIVE offer_event_all(_, _)
offer_event_all(ev, i) ==
    IF i > Len(backends) THEN <<>>
    ELSE <<Offer(i, ev, Backend_output_event(backends[i], ev))>>
         \o offer_event_all(ev, i + 1)

\* for backend in self.backends.iter_mut() {
\*     let r = backend.output_event(&ev)?; if r > 0 { return Ok(r); } }
RECURSIVE offer_event(_, _)
offer_event(ev, i) ==
    IF i > Len(backends) THEN <<>>
    ELSE LET r == Backend_output_event(backends[i], ev)
         IN  <<Offer(i, ev, r)>> \o (IF r > 0 THEN <<>> ELSE offer_event(ev, i + 1))

(***************************************************************************)
(* RMididings::config (engine/engine.rs).                                  *)
(***************************************************************************)
ConfigArguments(backend, in_ports, out_ports, data_offset) ==
    [backend |-> backend, in_ports |-> in_ports, out_ports |-> out_ports,
     data_offset |-> data_offset, scene_offset |-> DefaultSceneOffset,
     initial_scene |-> 0]

\* ConfigArguments::default
DefaultConfigArguments == ConfigArguments("Alsa", <<>>, <<>>, DefaultDataOffset)

\* one create_*_port or connect_*_port call of config
PortCall(op, dir, i, port, name, result) ==
    [op |-> op, dir |-> dir, backend |-> i, port |-> port, name |-> name,
     result |-> result]

\* the backends, the calls made so far and whether a call returned Err
ConfigState(bs, cs, failed) == [backends |-> bs, calls |-> cs, failed |-> failed]

\* the inner loop of config without its `break`
RECURSIVE offer_port_no_break(_, _, _, _, _)
offer_port_no_break(st, dir, port, spec, i) ==
    IF i > Len(st.backends) THEN st
    ELSE LET c == create_port(st.backends[i], dir, port, spec[1])
             created == PortCall("create", dir, i, port, spec[1], c.result)
         IN  CASE c.result = "Err" ->
                    ConfigState(st.backends, Append(st.calls, created), TRUE)
               [] c.result = "true" ->
                    LET k == connect_port(c.backend, dir, port, spec[2])
                    IN  offer_port_no_break(
                            ConfigState([st.backends EXCEPT ![i] = k.backend],
                                st.calls \o <<created, PortCall("connect", dir, i, port,
                                                                spec[2], k.result)>>,
                                FALSE),
                            dir, port, spec, i + 1)
               [] OTHER ->
                    offer_port_no_break(
                        ConfigState(st.backends, Append(st.calls, created), FALSE),
                        dir, port, spec, i + 1)

\* for backend in self.backends.iter_mut() {
\*     if backend.create_in_port(port_id, name)? {
\*         backend.connect_in_port(port_id, connect)?; break; } }
RECURSIVE offer_port(_, _, _, _, _)
offer_port(st, dir, port, spec, i) ==
    IF i > Len(st.backends) THEN st
    ELSE LET c == create_port(st.backends[i], dir, port, spec[1])
             created == PortCall("create", dir, i, port, spec[1], c.result)
         IN  CASE c.result = "Err" ->
                    ConfigState(st.backends, Append(st.calls, created), TRUE)
               [] c.result = "true" ->
                    LET k == connect_port(c.backend, dir, port, spec[2])
                    IN  ConfigState([st.backends EXCEPT ![i] = k.backend],
                            st.calls \o <<created, PortCall("connect", dir, i, port,
                                                            spec[2], k.result)>>,
                            FALSE)
               [] OTHER ->
                    offer_port(ConfigState(st.backends, Append(st.calls, created), FALSE),
                               dir, port, spec, i + 1)

\* for (port_id, [name, connect]) in ports.iter().enumerate() { ... }
RECURSIVE config_ports(_, _, _, _)
config_ports(st, dir, ports, port) ==
    IF st.failed \/ port >= Len(ports) THEN st
    ELSE config_ports(offer_port(st, dir, port, ports[port + 1], 1), dir, ports, port + 1)

\* RMididings::config up to the port loops: the backend list, in ports, out ports
config(a) ==
    LET bs == << IF a.backend = "Null" THEN NullBackend ELSE AlsaBackend, OscBackend >>
        ins == config_ports(ConfigState(bs, <<>>, FALSE), "in", a.in_ports, 0)
    IN  config_ports(ins, "out", a.out_ports, 0)

(***************************************************************************)
(* The calls of the Runner.  The methods of the Runner call each other     *)
(* recursively (run_patch -> output_event -> switch_scene_internal ->      *)
(* run_current_scene_exit -> run_patch ...).  Each method is modelled by   *)
(* an operator that maps the Runner state r at the time of the call to the *)
(* state after the method's own assignments and the list of calls it makes,*)
(* in order (`push`); exec runs a list of pending calls depth first, which *)
(* is the order in which the Rust call stack runs them.                    *)
(***************************************************************************)
Task(name, arg) == [task |-> name, arg |-> arg]
Result(r, push) == [r |-> r, push |-> push]

RunPatchTask(ref, filter, run_type, ev) ==
    Task("run_patch", [ref |-> ref, filter |-> filter, run_type |-> run_type, ev |-> ev])

\* for ev in evs.iter() { self.output_event(ev)?; }
output_events(evs) == [i \in 1..Len(evs) |-> Task("output_event", evs[i])]

\* Runner::run_patch; ref names the graph `filter` in the log
run_patch(r, ref, filter, run_type, ev) ==
    LET evs0 == IF IsSome(ev) THEN <<Unwrap(ev)>> ELSE <<NoneEvent>>
        evs == CASE run_type = "Patch" -> run(filter, evs0)
                 [] run_type = "Init" -> run_init(filter, evs0)
                 [] run_type = "Exit" -> run_exit(filter, evs0)
        entry == [op |-> "run_patch", ref |-> ref, run_type |-> run_type,
                  ev |-> ev, evs |-> evs,
                  scene |-> r.current_scene_num,
                  subscene |-> r.current_subscene_num,
                  stored |-> r.stored_subscene_nums,
                  running |-> r.running,
                  depth |-> r.depth]
    IN  Result([r EXCEPT !.log = Append(@, entry)], output_events(evs))

\* Runner::output_event
output_event(r, ev) ==
    LET entry == [op |-> "output_event", ev |-> ev,
                  scene |-> r.current_scene_num,
                  subscene |-> r.current_subscene_num,
                  stored |-> r.stored_subscene_nums,
                  running |-> r.running,
                  depth |-> r.depth]
        r0 == [r EXCEPT !.log = Append(@, entry)]
    IN  CASE ev.type = "Quit" -> Result([r0 EXCEPT !.running = FALSE], <<>>)
          [] ev.type = "SceneSwitch" /\ ev.scene.kind = "Fixed" ->
                Result(r0, << Task("switch_scene_internal",
                    [new_scene_num |-> saturating_sub_u8(ev.scene.v, scene_offset),
                     new_subscene_num_opt |-> None]) >>)
          [] ev.type = "SceneSwitch" /\ ev.scene.kind = "Offset" ->
                IF IsSome(r0.current_scene_num)
                THEN Result(r0, << Task("switch_scene_internal",
                        [new_scene_num |-> as_SceneNum(saturating_add_i16(
                                Unwrap(r0.current_scene_num), ev.scene.v)),
                         new_subscene_num_opt |-> None]) >>)
                ELSE Result(r0, <<>>)
          [] ev.type = "SubSceneSwitch" /\ ev.subscene.kind = "Fixed" ->
                Result(r0, << Task("switch_subscene_internal",
                    saturating_sub_u8(ev.subscene.v, scene_offset)) >>)
          [] ev.type = "SubSceneSwitch" /\ ev.subscene.kind = "Offset" ->
                IF IsSome(r0.current_subscene_num)
                THEN Result(r0, << Task("switch_subscene_internal",
                        as_SceneNum(saturating_add_i16(
                            Unwrap(r0.current_subscene_num), ev.subscene.v))) >>)
                ELSE Result(r0, <<>>)
          [] OTHER ->
                LET out == IF channel_offset = 0 /\ port_offset = 0 THEN ev
                           ELSE user_event_to_backend(ev)
                IN  Result([r0 EXCEPT !.sent = Append(@, out),
                                      !.offered = @ \o offer_event(out, 1)], <<>>)

\* Runner::run_current_scene_init: pre and the global patch; the current scene
\* is looked up after these two have run
run_current_scene_init(r) ==
    Result(r, << RunPatchTask(GlobalRef("pre"), args.pre, "Patch", None),
                 RunPatchTask(GlobalRef("patch"), args.patch, "Init", None),
                 Task("run_current_scene_init_scene", None) >>)

\* Runner::run_current_scene_init from `if let Some(current_scene)` on
run_current_scene_init_scene(r) ==
    LET current_scene == get_scene(args.scenes, r.current_scene_num)
    IN  IF IsSome(current_scene)
        THEN LET n == Unwrap(r.current_scene_num)
             IN  Result(r,
                    << RunPatchTask(SceneRef(n, "init"),
                                    Unwrap(current_scene).init, "Patch", None),
                       RunPatchTask(SceneRef(n, "patch"),
                                    Unwrap(current_scene).patch, "Init", None) >>)
        ELSE Result(r, <<>>)

\* Runner::run_current_subscene_init
run_current_subscene_init(r) ==
    LET current_scene == get_scene(args.scenes, r.current_scene_num)
        current_subscene ==
            IF IsSome(current_scene)
            THEN get_subscene_opt(Unwrap(current_scene), r.current_subscene_num)
            ELSE None
    IN  IF IsSome(current_subscene)
        THEN LET n == Unwrap(r.current_scene_num)
                 k == Unwrap(r.current_subscene_num)
             IN  Result(r,
                    << RunPatchTask(SubSceneRef(n, k, "init"),
                                    Unwrap(current_subscene).init, "Patch", None),
                       RunPatchTask(SubSceneRef(n, k, "patch"),
                                    Unwrap(current_subscene).patch, "Init", None) >>)
        ELSE Result(r, <<>>)

\* Runner::run_current_subscene_exit
run_current_subscene_exit(r) ==
    LET current_scene == get_scene(args.scenes, r.current_scene_num)
        current_subscene ==
            IF IsSome(current_scene)
            THEN get_subscene_opt(Unwrap(current_scene), r.current_subscene_num)
            ELSE None
    IN  IF IsSome(current_subscene)
        THEN LET n == Unwrap(r.current_scene_num)
                 k == Unwrap(r.current_subscene_num)
             IN  Result(r,
                    << RunPatchTask(SubSceneRef(n, k, "patch"),
                                    Unwrap(current_subscene).patch, "Exit", None),
                       RunPatchTask(SubSceneRef(n, k, "exit"),
                                    Unwrap(current_subscene).exit, "Patch", None) >>)
        ELSE Result(r, <<>>)

\* the calls of run_current_scene_exit on the current scene's own graphs
scene_exit_calls(r) ==
    LET current_scene == get_scene(args.scenes, r.current_scene_num)
    IN  IF IsSome(current_scene)
        THEN LET n == Unwrap(r.current_scene_num)
             IN  << RunPatchTask(SceneRef(n, "patch"),
                                 Unwrap(current_scene).patch, "Exit", None),
                    RunPatchTask(SceneRef(n, "exit"),
                                 Unwrap(current_scene).exit, "Patch", None) >>
        ELSE <<>>

\* run_current_scene_exit with post run right after the scene's exit graph,
\* before the global patch's run_exit
run_current_scene_exit_post_first(r) ==
    Result(r, scene_exit_calls(r)
              \o << RunPatchTask(GlobalRef("post"), args.post, "Patch", None),
                    RunPatchTask(GlobalRef("patch"), args.patch, "Exit", None) >>)

\* Runner::run_current_scene_exit
run_current_scene_exit(r) ==
    Result(r, scene_exit_calls(r)
              \o << RunPatchTask(GlobalRef("patch"), args.patch, "Exit", None),
                    RunPatchTask(GlobalRef("post"), args.post, "Patch", None) >>)

\* entering a transition from inside a hook of another transition nests the
\* calls; nesting deeper than MaxDepth is not followed
enter(r) ==
    IF r.depth >= MaxDepth THEN [r EXCEPT !.crashed = "depth"]
    ELSE [r EXCEPT !.depth = @ + 1]
leave(r) == Result([r EXCEPT !.depth = @ - 1], <<>>)

\* Runner::switch_subscene_internal
switch_subscene_internal(r, new_subscene_num) ==
    IF ~IsSome(r.current_scene_num) THEN Result(r, <<>>)
    ELSE IF IsSome(r.current_subscene_num)
            /\ Unwrap(r.current_subscene_num) = new_subscene_num
    THEN Result(r, <<>>)
    ELSE Result(enter(r),
            << Task("run_current_subscene_exit", None),
               Task("set_subscene", [current_scene_num |-> Unwrap(r.current_scene_num),
                                     new_subscene_num |-> new_subscene_num]),
               Task("run_current_subscene_init", None),
               Task("leave", None) >>)

\* set_subscene without the write-through to stored_subscene_nums
set_subscene_no_store(r, scene_num, new_subscene_num) ==
    Result([r EXCEPT !.current_subscene_num = Some(new_subscene_num)], <<>>)

\* the two assignments of switch_subscene_internal; the write to
\* stored_subscene_nums panics when the index is out of bounds
set_subscene(r, scene_num, new_subscene_num) ==
    IF scene_num >= Len(r.stored_subscene_nums)
    THEN Result([r EXCEPT !.current_subscene_num = Some(new_subscene_num),
                          !.crashed = "panic"], <<>>)
    ELSE Result([r EXCEPT !.current_subscene_num = Some(new_subscene_num),
                          !.stored_subscene_nums[scene_num + 1] = Some(new_subscene_num)],
                <<>>)

\* switch_scene_internal without the test `current_scene_num == new_scene_num`
switch_scene_internal_no_skip(r, new_scene_num, new_subscene_num_opt) ==
    IF IsSome(r.current_scene_num) /\ IsSome(new_subscene_num_opt)
    THEN Result(r, << Task("switch_subscene_internal", Unwrap(new_subscene_num_opt)) >>)
    ELSE Result(enter(r),
            << Task("run_current_subscene_exit", None),
               Task("run_current_scene_exit", None),
               Task("set_scene", [new_scene_num |-> new_scene_num,
                                  new_subscene_num_opt |-> new_subscene_num_opt]),
               Task("run_current_scene_init", None),
               Task("run_current_subscene_init", None),
               Task("leave", None) >>)
\* Runner::switch_scene_internal
switch_scene_internal(r, new_scene_num, new_subscene_num_opt) ==
    IF IsSome(r.current_scene_num) /\ IsSome(new_subscene_num_opt)
    THEN Result(r, << Task("switch_subscene_internal", Unwrap(new_subscene_num_opt)) >>)
    ELSE IF IsSome(r.current_scene_num) /\ Unwrap(r.current_scene_num) = new_scene_num
    THEN Result(r, <<>>)
    ELSE Result(enter(r),
            << Task("run_current_subscene_exit", None),
               Task("run_current_scene_exit", None),
               Task("set_scene", [new_scene_num |-> new_scene_num,
                                  new_subscene_num_opt |-> new_subscene_num_opt]),
               Task("run_current_scene_init", None),
               Task("run_current_subscene_init", None),
               Task("leave", None) >>)

\* set_scene that takes the new sub-scene but leaves current_scene_num as it was
set_scene_stale(r, new_scene_num, new_subscene_num_opt) ==
    LET r1 == [r EXCEPT !.current_scene_num = Some(new_scene_num)]
    IN  Result([r EXCEPT !.current_subscene_num =
                    IF IsSome(new_subscene_num_opt) THEN new_subscene_num_opt
                    ELSE get_stored_subscene_num(r1)], <<>>)

\* the two assignments of switch_scene_internal
set_scene(r, new_scene_num, new_subscene_num_opt) ==
    LET r1 == [r EXCEPT !.current_scene_num = Some(new_scene_num)]
    IN  Result([r1 EXCEPT !.current_subscene_num =
                    IF IsSome(new_subscene_num_opt) THEN new_subscene_num_opt
                    ELSE get_stored_subscene_num(r1)], <<>>)

\* Runner::run_current_patches: control and the global patch; the current
\* scene is looked up after these two have run
run_current_patches(r, ev) ==
    Result(r, << RunPatchTask(GlobalRef("control"), args.control, "Patch", Some(ev)),
                 RunPatchTask(GlobalRef("patch"), args.patch, "Patch", Some(ev)),
                 Task("run_current_patches_scene", ev) >>)

\* Runner::run_current_patches from `if let Some(current_scene)` on; the
\* current sub-scene is looked up after the scene's patch has run
run_current_patches_scene(r, ev) ==
    LET current_scene == get_scene(args.scenes, r.current_scene_num)
    IN  IF IsSome(current_scene)
        THEN LET n == Unwrap(r.current_scene_num)
             IN  Result(r,
                    << RunPatchTask(SceneRef(n, "patch"),
                                    Unwrap(current_scene).patch, "Patch", Some(ev)),
                       Task("run_current_patches_subscene",
                            [scene_num |-> n, ev |-> ev]) >>)
        ELSE Result(r, <<>>)

\* Runner::run_current_patches from `if let Some(current_subscene)` on
run_current_patches_subscene(r, scene_num, ev) ==
    LET current_subscene ==
            get_subscene_opt(args.scenes[scene_num + 1], r.current_subscene_num)
    IN  IF IsSome(current_subscene)
        THEN Result(r,
                << RunPatchTask(SubSceneRef(scene_num, Unwrap(r.current_subscene_num), "patch"),
                                Unwrap(current_subscene).patch, "Patch", Some(ev)) >>)
        ELSE Result(r, <<>>)

\* one pending call: the state after it and the calls it makes
call(r, t) ==
    CASE t.task = "run_patch" ->
            run_patch(r, t.arg.ref, t.arg.filter, t.arg.run_type, t.arg.ev)
      [] t.task = "output_event" -> output_event(r, t.arg)
      [] t.task = "switch_scene_internal" ->
            switch_scene_internal(r, t.arg.new_scene_num, t.arg.new_subscene_num_opt)
      [] t.task = "switch_subscene_internal" -> switch_subscene_internal(r, t.arg)
      [] t.task = "set_scene" ->
            set_scene(r, t.arg.new_scene_num, t.arg.new_subscene_num_opt)
      [] t.task = "set_subscene" ->
            set_subscene(r, t.arg.current_scene_num, t.arg.new_subscene_num)
      [] t.task = "leave" -> leave(r)
      [] t.task = "run_current_scene_init" -> run_current_scene_init(r)
      [] t.task = "run_current_scene_init_scene" -> run_current_scene_init_scene(r)
      [] t.task = "run_current_subscene_init" -> run_current_subscene_init(r)
      [] t.task = "run_current_subscene_exit" -> run_current_subscene_exit(r)
      [] t.task = "run_current_scene_exit" -> run_current_scene_exit(r)
      [] t.task = "run_current_patches" -> run_current_patches(r, t.arg)
      [] t.task = "run_current_patches_scene" -> run_current_patches_scene(r, t.arg)
      [] t.task = "run_current_patches_subscene" ->
            run_current_patches_subscene(r, t.arg.scene_num, t.arg.ev)

\* run the pending calls, the calls of a call before the calls after it; a
\* panic unwinds all of them
RECURSIVE exec(_, _)
exec(r, todo) ==
    IF todo = <<>> \/ r.crashed # "" THEN r
    ELSE LET res == call(r, Head(todo))
         IN  exec(res.r, res.push \o Tail(todo))

(***************************************************************************)
(* Configurations: what RMididings::config and RunArguments hand to the    *)
(* Runner.                                                                 *)
(***************************************************************************)
\* Scene::DEFAULT with a name, a patch and sub-scenes
PlainScene(name, patch, subscenes) == Scene(name, patch, Discard, Discard, subscenes)

\* examples/simple_scene.rs: the scenes "Run" and "Pause"
SimpleScenes == << PlainScene("Run", Pass, <<>>), PlainScene("Pause", Discard, <<>>) >>

\* three scenes; the first and the last have sub-scenes, hooks generate notes
SubScenes ==
    << Scene("Verse", Pass, NoteOn(1, 1), NoteOn(2, 1),
             << PlainScene("V1", Pass, <<>>),
                Scene("V2", Discard, NoteOn(3, 1), NoteOn(4, 1), <<>>) >>),
       PlainScene("Bridge", Discard, <<>>),
       Scene("Chorus", Fork(<<Pass, InitNode(NoteOn(5, 1)), ExitNode(NoteOn(6, 1))>>),
             Discard, Discard,
             << PlainScene("C1", Pass, <<>>),
                PlainScene("C2", Discard, <<>>),
                PlainScene("C3", Pass, <<>>) >>) >>

\* the control graph: keys select a scene or quit, as in examples/simple_scene.rs
KeyControl ==
    << Chain(<<KeyFilter(60), SceneSwitch(1)>>),
       Chain(<<KeyFilter(62), SceneSwitch(2)>>),
       Chain(<<KeyFilter(63), SceneSwitch(9)>>),
       Chain(<<KeyFilter(64), Quit>>) >>

\* generators put next to the key control, one per configuration
ExtraControls ==
    { SceneSwitchOffset(1), SceneSwitchOffset(-1), SceneSwitchOffset(I16Max),
      SubSceneSwitch(2), SubSceneSwitch(7),
      SubSceneSwitchOffset(1), SubSceneSwitchOffset(-1) }

Controls == {Fork(KeyControl)} \cup {Fork(Append(KeyControl, g)) : g \in ExtraControls}

RunArgs(patch, scenes, control, pre, post) ==
    [patch |-> patch, scenes |-> scenes, control |-> control, pre |-> pre, post |-> post]

Config(scenes, control, so) ==
    [args |-> RunArgs(Discard, scenes, control, Pass, Pass),
     scene_offset |-> so, initial_scene_num |-> 0]

Configs ==
    {Config(SimpleScenes, Fork(KeyControl), DefaultSceneOffset)}
    \cup {Config(SubScenes, control, so) :
             control \in Controls, so \in {0, DefaultSceneOffset}}

\* what the backends can deliver on one poll
IngressEvents ==
    {NoteOnEvent(0, 0, n, 40) : n \in {60, 62, 63, 64, 70}} \cup {QuitEvent}

RECURSIVE SeqsUpTo(_, _)
SeqsUpTo(S, n) ==
    IF n = 0 THEN {<<>>}
    ELSE LET shorter == SeqsUpTo(S, n - 1)
         IN  shorter \cup {Append(s, x) : s \in shorter, x \in S}

Batches == SeqsUpTo(IngressEvents, MaxBatch)

(***************************************************************************)
(* Runner::new and the steps of Runner::run.                               *)
(***************************************************************************)
\* Runner::new
Init ==
    /\ \E c \in Configs :
          /\ args = c.args
          /\ scene_offset = c.scene_offset
          /\ initial_scene_num = c.initial_scene_num
          /\ stored_subscene_nums =
                [i \in 1..Len(c.args.scenes) |->
                    IF c.args.scenes[i].subscenes = <<>> THEN None ELSE Some(0)]
    /\ port_offset = DefaultDataOffset
    /\ channel_offset = DefaultDataOffset
    /\ current_scene_num = None
    /\ current_subscene_num = None
    /\ running = FALSE
    /\ pc = "new"
    /\ events = <<>>
    /\ log = <<>>
    /\ sent = <<>>
    /\ crashed = ""
    /\ ticks = 0
    /\ graph = Discard
    /\ stream_in = <<>>
    /\ stream = <<>>
    /\ called = ""
    /\ hash_order = <<>>
    /\ cargs = DefaultConfigArguments
    /\ peer_listens = FALSE
    /\ backends = config(DefaultConfigArguments).backends
    /\ calls = <<>>
    /\ config_result = "Ok"
    /\ offered = <<>>
    /\ run_errors = {}
    /\ sigint = FALSE

\* the Runner fields, the log and the backend output after a step that ends in r
Commit(r, next_pc) ==
    /\ current_scene_num' = r.current_scene_num
    /\ current_subscene_num' = r.current_subscene_num
    /\ stored_subscene_nums' = r.stored_subscene_nums
    /\ running' = r.running
    /\ log' = r.log
    /\ sent' = r.sent
    /\ offered' = r.offered
    /\ crashed' = r.crashed
    /\ pc' = IF r.crashed # "" THEN "crashed" ELSE next_pc

\* Runner::run up to the main loop: set up the scene, run the init hooks
Setup ==
    /\ pc = "new"
    /\ LET r0 == IF args.scenes # <<>>
                 THEN LET r == [RunnerState EXCEPT
                                    !.current_scene_num = Some(initial_scene_num)]
                      IN  [r EXCEPT !.current_subscene_num = get_stored_subscene_num(r)]
                 ELSE RunnerState
           r1 == [r0 EXCEPT !.running = TRUE]
       IN  Commit(exec(r1, << Task("run_current_scene_init", None),
                              Task("run_current_subscene_init", None) >>), "loop")
    /\ UNCHANGED <<config_vars, events, ticks>>

\* BackendRun as the head of an unconditional `loop`
BackendRun_loop ==
    /\ pc = "loop"
    /\ \E batch \in Batches :
          /\ ticks + Len(batch) <= MaxTicks
          /\ events' = batch
          /\ ticks' = ticks + Len(batch)
    /\ pc' = "batch"
    /\ log' = <<>>
    /\ sent' = <<>>
    /\ offered' = <<>>
    /\ UNCHANGED <<config_vars, current_scene_num, current_subscene_num,
                   stored_subscene_nums, running, crashed>>

\* while self.running { events = backends.run() ...
BackendRun ==
    /\ pc = "loop"
    /\ running
    /\ \E batch \in Batches :
          /\ ticks + Len(batch) <= MaxTicks
          /\ events' = batch
          /\ ticks' = ticks + Len(batch)
    /\ pc' = "batch"
    /\ log' = <<>>
    /\ sent' = <<>>
    /\ offered' = <<>>
    /\ UNCHANGED <<config_vars, current_scene_num, current_subscene_num,
                   stored_subscene_nums, running, crashed>>

\* one iteration of `for mut ev in events`: one tick
Tick ==
    /\ pc = "batch"
    /\ events # <<>>
    /\ Commit(exec(RunnerState, << Task("run_current_patches",
                                          backend_event_to_user(Head(events))) >>),
              "batch")
    /\ events' = Tail(events)
    /\ UNCHANGED <<config_vars, ticks>>

\* the batch is done: poll, then test `while self.running` again
Poll ==
    /\ pc = "batch"
    /\ events = <<>>
    /\ pc' = "loop"
    /\ UNCHANGED <<config_vars, current_scene_num, current_subscene_num,
                   stored_subscene_nums, running, events, log, sent, offered,
                   crashed, ticks>>

\* the loop condition fails: Runner::run returns Ok(())
Return ==
    /\ pc = "loop"
    /\ ~running
    /\ pc' = "done"
    /\ UNCHANGED <<config_vars, current_scene_num, current_subscene_num,
                   stored_subscene_nums, running, events, log, sent, offered,
                   crashed, ticks>>

Next == Setup \/ BackendRun \/ Tick \/ Poll \/ Return

Spec == Init /\ [][Next]_vars

TypeOK ==
    /\ pc \in {"new", "loop", "batch", "done", "crashed"}
    /\ running \in BOOLEAN
    /\ Len(events) <= MaxBatch

(***************************************************************************)
(* Graphs called outside of a Runner, as the doc tests of proc/ do:        *)
(* a FilterTrait method is called once on a graph and an EventStream.      *)
(***************************************************************************)
\* the events of the doc tests of Chain! and Fork!
ev1 == NoteOnEvent(0, 0, 60, 20)
ev2 == NoteOnEvent(0, 0, 61, 20)
ev3 == NoteOnEvent(0, 1, 60, 20)
ev4 == NoteOnEvent(0, 1, 61, 20)
DocStream == <<ev1, ev2, ev3, ev4>>

AddrPrefix == <<"/", "a">>
AddrLong == <<"/", "a", "/", "b">>
AddrOther == <<"/", "f">>

StreamEvents ==
    {ev1, ev2, ev3, CtrlEvent(1, 1, 7, 64), OscEvent(0, AddrLong, <<>>), NoneEvent}
Streams ==
    SeqsUpTo(StreamEvents, MaxStreamLen)
    \cup {DocStream, <<OscEvent(0, AddrOther, <<>>), NoteOffEvent(0, 0, 60)>>,
           <<SysExEvent(0, <<240, 247>>), QuitEvent, SceneSwitchEvent(2)>>}
\* streams that hold every variant, switch events among them
VariantStreams ==
    {<<SubSceneSwitchEvent(1), NoteOnEvent(1, 2, 64, 20), SysExEvent(1, <<240, 247>>)>>,
     <<SceneSwitchOffsetEvent(1), CtrlEvent(0, 0, 1, 127), OscEvent(1, AddrOther, <<>>)>>,
     <<QuitEvent, NoneEvent, NoteOffEvent(0, 1, 61), SceneSwitchEvent(2)>>}
\* the streams handed to the switch generators
SwitchStreams ==
    {<<>>, <<ev1>>, <<ev2>>, <<NoneEvent>>, <<ev2, ev1>>, <<CtrlEvent(1, 1, 7, 64)>>}

\* the filters of the catalogue
CatalogueFilters ==
    {TypeFilter(ty) : ty \in {"Midi", "Note", "NoteOn", "NoteOff", "Ctrl", "SysEx",
                              "None", "Quit", "SceneSwitch", "SubSceneSwitch", "Osc"}}
    \cup {PortFilter(0), PortsFilter({1, 2}), ChannelFilter(1), ChannelsFilter({0, 2}),
          KeyFilter(60), KeysFilter({61, 62}), KeyRangeFilter(61, 70),
          CtrlFilter(7), CtrlFilter(1), CtrlsFilter({1, 7}), CtrlValueFilter(64),
          CtrlValuesFilter({0, 127}), CtrlValueRangeFilter(0, 63),
          OscAddrFilter(AddrLong), OscAddrFilter(AddrOther),
          OscStripPrefix(AddrPrefix), OscStripPrefix(AddrOther)}
PureFilters == CatalogueFilters \cup {Pass, Discard}

\* children of the composites
FilterChildren == {Pass, Discard, KeyFilter(60), ChannelFilter(1)}
Children == FilterChildren \cup {NoteOn(60, 20), Port(2)}
Pairs(S) == {Chain(<<a, b>>) : a, b \in S} \cup {Fork(<<a, b>>) : a, b \in S}
Triples(S) ==
    {Chain(<<a, b, c>>) : a, b, c \in S} \cup {Fork(<<a, b, c>>) : a, b, c \in S}

\* graphs made of filters only
FilterGraphs ==
    PureFilters \cup Pairs(FilterChildren)
    \cup {Chain(<<KeyFilter(60), Fork(<<ChannelFilter(1), Not(KeyFilter(60))>>)>>),
          Fork(<<Chain(<<ChannelFilter(1), KeyFilter(60)>>), TypeFilter("Ctrl")>>)}

\* graphs with Init and Exit wrappers
ScopedChildren ==
    {InitNode(NoteOn(60, 20)), ExitNode(NoteOn(61, 20)), InitNode(Discard),
     NoteOn(62, 20), KeyFilter(60)}
ScopedGraphs ==
    {InitNode(c) : c \in Children} \cup {ExitNode(c) : c \in Children}
    \cup Pairs(ScopedChildren)
    \cup {Not(InitNode(NoteOn(60, 20))), InitNode(InitNode(NoteOn(60, 20))),
          InitNode(ExitNode(NoteOn(60, 20))),
          Fork(<<InitNode(NoteOn(60, 20)), Chain(<<KeyFilter(60), InitNode(Discard)>>)>>)}

Graphs ==
    FilterGraphs \cup Pairs(Children)
    \cup Triples({KeyFilter(60), ChannelFilter(1), NoteOn(60, 20)})
    \cup {Not(g) : g \in FilterGraphs \cup Pairs(Children)}
    \cup {Not(Not(g)) : g \in FilterGraphs}
    \cup ScopedGraphs

\* the key-split patch: low keys to channel 1, high keys to channel 2
MaxNote == 127
KeySplit ==
    Fork(<< Chain(<<KeyRangeFilter(0, 59), Channel(1)>>),
            Chain(<<KeyRangeFilter(60, MaxNote), Channel(2)>>) >>)
KeyStreams ==
    {<<NoteOnEvent(0, 0, n, 40)>> : n \in 0..MaxNote}
    \cup {<<NoteOffEvent(0, 0, n)>> : n \in 0..MaxNote}

\* Transpose by a few semitones, by octaves, and by the extremes of an i16
Transposes ==
    {Transpose(d) : d \in {-61, -4, 0, 1, 68, I16Min, I16Max}}
    \cup {TransposeOctave(o) : o \in {-1, 1}}

\* the scene and sub-scene switch generators, alone and behind a filter
SwitchGenerators ==
    {SceneSwitch(2), SceneSwitchOffset(1), SubSceneSwitch(1), SubSceneSwitchOffset(-1)}
SwitchGraphs ==
    SwitchGenerators \cup {Chain(<<KeyFilter(60), g>>) : g \in SwitchGenerators}

\* OscAddPrefix(P) followed by OscStripPrefix(P)
AddStrip(P) == Chain(<<OscAddPrefix(P), OscStripPrefix(P)>>)
Prefixes == {AddrPrefix, AddrOther, <<>>}
OscStreams ==
    SeqsUpTo({OscEvent(0, AddrLong, <<>>), OscEvent(1, AddrOther, <<OscInt(60)>>),
              OscEvent(0, AddrPrefix, <<OscFloat(1)>>), OscEvent(2, <<>>, <<>>),
              NoteOnEvent(0, 0, 60, 20)}, MaxStreamLen)

\* the doc tests of ProcessOsc!
AddrFoo == <<"/", "f", "o", "o">>
FooProcess == ProcessOsc("Int", "|i| NoteOn(i as u8, 30)")
FooNote == Chain(<<OscAddrFilter(AddrFoo), FooProcess>>)
OscArgStreams ==
    SeqsUpTo({OscEvent(0, AddrFoo, <<OscInt(60)>>), OscEvent(0, AddrFoo, <<OscInt(300)>>),
              OscEvent(0, AddrFoo, <<OscInt(-1)>>),
              OscEvent(0, AddrFoo, <<OscInt(60), OscInt(10)>>),
              OscEvent(0, AddrFoo, <<OscFloat(1)>>), OscEvent(0, AddrFoo, <<>>),
              OscEvent(0, AddrOther, <<OscInt(60)>>), NoteOnEvent(0, 0, 62, 30)},
             MaxStreamLen)
\* the orders in which a HashMap hands out the keys 0 .. MaxStreamLen - 1
HashOrders ==
    {p \in [1..MaxStreamLen -> 0..(MaxStreamLen - 1)] :
        \A i, j \in 1..MaxStreamLen : p[i] = p[j] => i = j}

\* a call: the graph, the stream handed to it, the key order of its HashMaps
PatchCalls ==
    {<<g, evs, <<>> >> : g \in Graphs \cup {KeySplit, Panic}, evs \in Streams}
    \cup {<<KeySplit, evs, <<>> >> : evs \in KeyStreams}
    \cup {<<g, evs, <<>> >> : g \in Transposes, evs \in KeyStreams}
    \cup {<<g, evs, <<>> >> : g \in SwitchGraphs, evs \in SwitchStreams}
    \cup {<<g, evs, <<>> >> : g \in CatalogueFilters, evs \in VariantStreams}
    \cup {<<AddStrip(P), evs, <<>> >> : P \in Prefixes, evs \in OscStreams}
    \cup {<<FooNote, evs, order>> : evs \in OscArgStreams, order \in HashOrders}
    \cup {<<FooProcess, evs, order>> :
             evs \in {s \in OscArgStreams : Len(s) = 2}, order \in HashOrders}

\* the state without a Runner
NoRunner ==
    /\ args = RunArgs(Discard, <<>>, Discard, Discard, Discard)
    /\ scene_offset = DefaultSceneOffset
    /\ initial_scene_num = 0
    /\ port_offset = DefaultDataOffset
    /\ channel_offset = DefaultDataOffset
    /\ current_scene_num = None
    /\ current_subscene_num = None
    /\ stored_subscene_nums = <<>>
    /\ running = FALSE
    /\ pc = "none"
    /\ events = <<>>
    /\ log = <<>>
    /\ sent = <<>>
    /\ offered = <<>>
    /\ crashed = ""
    /\ ticks = 0
    /\ cargs = DefaultConfigArguments
    /\ peer_listens = FALSE
    /\ backends = <<>>
    /\ calls = <<>>
    /\ config_result = ""
    /\ run_errors = {}
    /\ sigint = FALSE

runner_vars ==
    <<args, scene_offset, initial_scene_num, port_offset, channel_offset,
      current_scene_num, current_subscene_num, stored_subscene_nums, running, pc,
      events, log, sent, offered, crashed, ticks, engine_vars>>

PatchInit ==
    /\ NoRunner
    /\ \E c \in PatchCalls :
          /\ graph = c[1]
          /\ stream_in = c[2]
          /\ hash_order = c[3]
    /\ stream = stream_in
    /\ called = ""

\* the stream after one call of `method`
Returns(method, result) ==
    /\ called' = method
    /\ stream' = result
    /\ UNCHANGED <<graph, stream_in, hash_order, runner_vars>>

\* graph.run(&mut evs)
Run ==
    /\ called = ""
    /\ Returns("run", run(graph, stream))
\* graph.run_inverse(&mut evs)
RunInverse ==
    /\ called = ""
    /\ Returns("run_inverse", run_inverse(graph, stream))
\* graph.run_init(&mut evs)
RunInit ==
    /\ called = ""
    /\ Returns("run_init", run_init(graph, stream))
\* graph.run_exit(&mut evs)
RunExit ==
    /\ called = ""
    /\ Returns("run_exit", run_exit(graph, stream))
\* evs.dedup()
Dedup ==
    /\ called = ""
    /\ Returns("dedup", dedup(stream))

PatchNext == Run \/ RunInverse \/ RunInit \/ RunExit \/ Dedup

PatchSpec == PatchInit /\ [][PatchNext]_vars

(***************************************************************************)
(* A program that calls RMididings::new, config and run                    *)
(* (engine/engine.rs), with its backends and the signals it receives.      *)
(***************************************************************************)
Named(scheme, rest) == scheme \o <<":">> \o rest
NameKeys == <<"k", "e", "y", "s">>
NameSynth == <<"s", "y", "n">>
SchemeJack == <<"j", "a", "c", "k">>
\* the address of the OSC peer, and an address without a port
OscPeer == <<"h", ":", "9">>
OscNoPort == <<"h">>
NoPeer == <<>>

\* the ConfigArguments of the programs
EngineConfigs ==
    { DefaultConfigArguments,
      ConfigArguments("Alsa",
          << <<NameKeys, AlsaPeer>>, <<Named(SchemeOsc, <<"/", "/">> \o OscPeer), NoPeer>> >>,
          << <<NameSynth, NoPeer>>, <<Named(SchemeOscUdp, OscPeer), OscPeer>> >>,
          DefaultDataOffset),
      ConfigArguments("Alsa",
          << <<Named(SchemeAlsa, NameKeys), NoPeer>>, <<Named(SchemeOscTcp, OscPeer), NoPeer>> >>,
          << <<Named(SchemeAlsa, NameSynth), AlsaPeer>>, <<Named(SchemeOscTcp, OscPeer), OscPeer>> >>,
          0),
      ConfigArguments("Null",
          << <<NameKeys, NoPeer>>, <<Named(SchemeOscUdp, OscPeer), NoPeer>> >>,
          << <<Named(SchemeAlsa, NameSynth), NoPeer>>, <<Named(SchemeOsc, OscPeer), OscPeer>> >>,
          DefaultDataOffset),
      ConfigArguments("Null",
          << <<Named(SchemeNull, NameKeys), NoPeer>> >>,
          << <<NameSynth, NoPeer>> >>,
          DefaultDataOffset),
      ConfigArguments("Alsa",
          << <<Named(SchemeJack, NameKeys), NoPeer>> >>,
          << <<NameSynth, NoPeer>> >>,
          DefaultDataOffset),
      ConfigArguments("Alsa",
          << <<Named(SchemeOsc, OscNoPort), NoPeer>>, <<NameKeys, NoPeer>> >>,
          << <<NameSynth, NoPeer>> >>,
          DefaultDataOffset),
      ConfigArguments("Alsa",
          << <<Named(SchemeAlsa, NameKeys), NoPeer>> >>,
          << <<Named(SchemeAlsa, NameSynth), NoPeer>> >>,
          U8Max - 14) }

\* the RunArguments of the programs: the identity patch, and two scenes with
\* a control patch that switches scenes and quits
EngineRunArgs ==
    { RunArgs(Pass, <<>>, Discard, Discard, Discard),
      RunArgs(Discard, SimpleScenes, Fork(KeyControl), Pass, Pass) }

\* RMididings::new, before config
EngineInit ==
    /\ args = RunArgs(Discard, <<>>, Discard, Discard, Discard)
    /\ scene_offset = DefaultSceneOffset
    /\ initial_scene_num = 0
    /\ port_offset = DefaultDataOffset
    /\ channel_offset = DefaultDataOffset
    /\ current_scene_num = None
    /\ current_subscene_num = None
    /\ stored_subscene_nums = <<>>
    /\ running = FALSE
    /\ pc = "start"
    /\ events = <<>>
    /\ log = <<>>
    /\ sent = <<>>
    /\ offered = <<>>
    /\ crashed = ""
    /\ ticks = 0
    /\ graph = Discard
    /\ stream_in = <<>>
    /\ stream = <<>>
    /\ called = ""
    /\ hash_order = <<>>
    /\ cargs \in EngineConfigs
    /\ peer_listens \in BOOLEAN
    /\ backends = <<>>
    /\ calls = <<>>
    /\ config_result = ""
    /\ run_errors = {}
    /\ sigint = FALSE

\* the Runner fields and the logs, which config does not touch
loop_vars == <<current_scene_num, current_subscene_num, stored_subscene_nums,
               running, events, log, sent, offered, crashed, ticks>>

\* RMididings::config: an Err of a backend call is returned with `?`, and the
\* offsets are stored at the end
Configure ==
    /\ pc = "start"
    /\ LET st == config(cargs)
       IN  /\ backends' = st.backends
           /\ calls' = st.calls
           /\ config_result' = IF st.failed THEN "Err" ELSE "Ok"
           /\ pc' = IF st.failed THEN "aborted" ELSE "configured"
           /\ initial_scene_num' = IF st.failed THEN initial_scene_num ELSE cargs.initial_scene
           /\ port_offset' = IF st.failed THEN port_offset ELSE cargs.data_offset
           /\ channel_offset' = IF st.failed THEN channel_offset ELSE cargs.data_offset
           /\ scene_offset' = IF st.failed THEN scene_offset ELSE cargs.scene_offset
    /\ UNCHANGED <<args, call_vars, cargs, peer_listens, run_errors, sigint, loop_vars>>

\* RMididings::run up to Runner::new
NewRunner ==
    /\ pc = "configured"
    /\ \E a \in EngineRunArgs :
          /\ args' = a
          /\ stored_subscene_nums' =
                [i \in 1..Len(a.scenes) |->
                    IF a.scenes[i].subscenes = <<>> THEN None ELSE Some(0)]
    /\ current_scene_num' = None
    /\ current_subscene_num' = None
    /\ running' = FALSE
    /\ pc' = "new"
    /\ UNCHANGED <<scene_offset, initial_scene_num, port_offset, channel_offset,
                   call_vars, engine_vars, events, log, sent, offered, crashed, ticks>>

\* Result<EventStream, Error> of one Backend::run call
RunOk(evs) == [ok |-> TRUE, evs |-> evs]
RunErr == [ok |-> FALSE, evs |-> <<>>]

\* AlsaBackend::run: at most one event, of an in port of the backend
Alsa_run(b) ==
    {RunOk(<<>>), RunErr}
    \cup {RunOk(<<e>>) : e \in UNION {{NoteOnEvent(p, 0, 60, 40), NoteOnEvent(p, 0, 62, 40),
                                       NoteOnEvent(p, 15, 64, 40)} : p \in b.in_ports}}

\* OscBackend::run: what the sockets of the in ports have ready; From<OscMessage>
\* puts every message on port 0
Osc_run(b) ==
    IF b.in_ports = {} THEN {RunOk(<<>>)}
    ELSE {RunOk(<<>>), RunErr, RunOk(<<OscEvent(0, AddrFoo, <<OscInt(60)>>)>>)}

\* Backend::run of backend b
Backend_run(b) ==
    CASE b.kind = "Alsa" -> Alsa_run(b)
      [] b.kind = "Osc" -> Osc_run(b)
      [] b.kind = "Ctrlc" -> {RunOk(<<QuitEvent>>)}
      [] OTHER -> {RunOk(<<>>)}

\* flat_map over the Results: the events of the Ok results, the Err results dropped
RECURSIVE flat_map(_)
flat_map(rs) ==
    IF rs = <<>> THEN <<>>
    ELSE (IF Head(rs).ok THEN Head(rs).evs ELSE <<>>) \o flat_map(Tail(rs))

\* while self.running {
\*     let events = self.backends.iter_mut().flat_map(|b| b.run()).collect();
EngineBackendRun ==
    /\ pc = "loop"
    /\ running
    /\ \E rs \in [1..Len(backends) -> UNION {Backend_run(backends[i]) : i \in 1..Len(backends)}] :
          /\ \A i \in 1..Len(backends) : rs[i] \in Backend_run(backends[i])
          /\ ticks + Len(flat_map(rs)) <= MaxTicks
          /\ events' = flat_map(rs)
          /\ ticks' = ticks + Len(flat_map(rs))
          /\ run_errors' = {i \in 1..Len(backends) : ~rs[i].ok}
    /\ pc' = "batch"
    /\ log' = <<>>
    /\ sent' = <<>>
    /\ offered' = <<>>
    /\ UNCHANGED <<args, scene_offset, initial_scene_num, port_offset, channel_offset,
                   call_vars, cargs, peer_listens, backends, calls, config_result, sigint,
                   current_scene_num, current_subscene_num, stored_subscene_nums,
                   running, crashed>>

\* SIGINT while Runner::run is running: the handler that CtrlcBackend::new
\* installs writes to the self-pipe; without it the signal ends the process
Sigint ==
    /\ pc \in {"loop", "batch"}
    /\ ~sigint
    /\ sigint' = TRUE
    /\ pc' = IF \E i \in 1..Len(backends) : backends[i].kind = "Ctrlc" THEN pc ELSE "killed"
    /\ UNCHANGED <<args, scene_offset, initial_scene_num, port_offset, channel_offset,
                   call_vars, cargs, peer_listens, backends, calls, config_result,
                   run_errors, loop_vars>>

EngineNext ==
    Configure \/ NewRunner \/ Setup \/ EngineBackendRun \/ Tick \/ Poll \/ Return \/ Sigint

EngineSpec == EngineInit /\ [][EngineNext]_vars

\* the process is scheduled: a step of the program that can be taken is taken.
\* Weak fairness of Configure, Setup and Tick is written out, with the
\* condition under which the step is enabled.
EngineLive ==
    /\ EngineSpec
    /\ WF_vars(NewRunner) /\ WF_vars(EngineBackendRun) /\ WF_vars(Poll) /\ WF_vars(Return)
    /\ ([]<>(pc # "start") \/ []<><<Configure>>_vars)
    /\ ([]<>(pc # "new") \/ []<><<Setup>>_vars)
    /\ ([]<>(pc # "batch" \/ events = <<>>) \/ []<><<Tick>>_vars)

(***************************************************************************)
(* A Runner whose init and exit graphs hold switch generators, which the   *)
(* documentation of SceneSwitch provides for (proc/mod.rs:917-920).        *)
(***************************************************************************)
\* leaving scene "A" asks for scene "B"
ExitSwitches ==
    << Scene("A", Pass, Discard, SceneSwitch(2), <<>>), PlainScene("B", Discard, <<>>) >>
\* entering either scene asks for the other
InitPingPong ==
    << Scene("A", Pass, SceneSwitch(2), Discard, <<>>),
       Scene("B", Pass, SceneSwitch(1), Discard, <<>>) >>
\* entering scene "A" asks for scene "A"
InitSelf ==
    << Scene("A", Pass, SceneSwitch(1), Discard, <<>>), PlainScene("B", Discard, <<>>) >>
\* entering scene "B" asks for its second sub-scene
InitSubSwitch ==
    << PlainScene("A", Pass, <<>>),
       Scene("B", Pass, SubSceneSwitch(2), Discard,
             << PlainScene("B1", Pass, <<>>), PlainScene("B2", Discard, <<>>) >>) >>
\* leaving the first sub-scene of "A" asks for the next sub-scene
SubExitOffset ==
    << Scene("A", Pass, Discard, Discard,
             << Scene("A1", Pass, Discard, SubSceneSwitchOffset(1), <<>>),
                PlainScene("A2", Pass, <<>>) >>),
       PlainScene("B", Discard, <<>>) >>

HookConfigs ==
    {Config(scenes, Fork(KeyControl), DefaultSceneOffset) :
        scenes \in {ExitSwitches, InitPingPong, InitSelf, InitSubSwitch, SubExitOffset}}

\* Runner::new
HookInit ==
    /\ \E c \in HookConfigs :
          /\ args = c.args
          /\ scene_offset = c.scene_offset
          /\ initial_scene_num = c.initial_scene_num
          /\ stored_subscene_nums =
                [i \in 1..Len(c.args.scenes) |->
                    IF c.args.scenes[i].subscenes = <<>> THEN None ELSE Some(0)]
    /\ port_offset = DefaultDataOffset
    /\ channel_offset = DefaultDataOffset
    /\ current_scene_num = None
    /\ current_subscene_num = None
    /\ running = FALSE
    /\ pc = "new"
    /\ events = <<>>
    /\ log = <<>>
    /\ sent = <<>>
    /\ offered = <<>>
    /\ crashed = ""
    /\ ticks = 0
    /\ graph = Discard
    /\ stream_in = <<>>
    /\ stream = <<>>
    /\ called = ""
    /\ hash_order = <<>>
    /\ cargs = DefaultConfigArguments
    /\ peer_listens = FALSE
    /\ backends = config(DefaultConfigArguments).backends
    /\ calls = <<>>
    /\ config_result = "Ok"
    /\ run_errors = {}
    /\ sigint = FALSE

HookSpec == HookInit /\ [][Next]_vars

(***************************************************************************)
(* A Runner made with Runner::new on a list of backends that holds the     *)
(* Ctrl-C backend, as backend/ctrlc.rs means it to be used.                *)
(***************************************************************************)
\* an ALSA backend with in port 0 and out port 0
AlsaWithPorts ==
    [AlsaBackend EXCEPT !.in_ports = {0}, !.out_ports = {OutPort(0, FALSE, FALSE)}]
\* the backend lists handed to Runner::new
CtrlcBackendLists ==
    { <<CtrlcBackend>>, <<AlsaWithPorts, CtrlcBackend>>, <<CtrlcBackend, AlsaWithPorts>>,
      <<NullBackend, CtrlcBackend>> }

\* Runner::new(args, backends, port_offset, channel_offset, scene_offset, initial_scene_num)
CtrlcInit ==
    /\ \E a \in EngineRunArgs :
          /\ args = a
          /\ stored_subscene_nums =
                [i \in 1..Len(a.scenes) |->
                    IF a.scenes[i].subscenes = <<>> THEN None ELSE Some(0)]
    /\ scene_offset = DefaultSceneOffset
    /\ initial_scene_num = 0
    /\ \E o \in {0, DefaultDataOffset} : port_offset = o /\ channel_offset = o
    /\ current_scene_num = None
    /\ current_subscene_num = None
    /\ running = FALSE
    /\ pc = "new"
    /\ events = <<>>
    /\ log = <<>>
    /\ sent = <<>>
    /\ offered = <<>>
    /\ crashed = ""
    /\ ticks = 0
    /\ graph = Discard
    /\ stream_in = <<>>
    /\ stream = <<>>
    /\ called = ""
    /\ hash_order = <<>>
    /\ cargs = DefaultConfigArguments
    /\ peer_listens = FALSE
    /\ backends \in CtrlcBackendLists
    /\ calls = <<>>
    /\ config_result = "Ok"
    /\ run_errors = {}
    /\ sigint = FALSE

CtrlcNext == Setup \/ EngineBackendRun \/ Tick \/ Poll \/ Return \/ Sigint

CtrlcSpec == CtrlcInit /\ [][CtrlcNext]_vars

(***************************************************************************)
(* Reading the log of a step.                                              *)
(***************************************************************************)
IsRunPatch(e) == e.op = "run_patch"
IsOutputEvent(e) == e.op = "output_event"
\* a hook invocation: anything but the four `run` invocations of a tick
IsHook(e) ==
    /\ IsRunPatch(e)
    /\ \/ e.run_type \in {"Init", "Exit"}
       \/ e.ref.field \in {"pre", "post", "init", "exit"}
IsTickRun(e) == IsRunPatch(e) /\ ~IsHook(e)
IsSwitchEvent(ev) == ev.type \in {"SceneSwitch", "SubSceneSwitch"}
IsControlEvent(ev) == ev.type \in {"Quit", "SceneSwitch", "SubSceneSwitch"}
IsSwitchOutput(e) == IsOutputEvent(e) /\ IsSwitchEvent(e.ev)

ValidScene(n) == n < Len(args.scenes)
ValidSubScene(n, k) == ValidScene(n) /\ k < Len(args.scenes[n + 1].subscenes)

\* the index of the first entry after i that is a tick run or a handled switch
\* event, Len(L) + 1 if there is none
NextBoundary(L, i) ==
    LET later == {j \in (i + 1)..Len(L) : IsTickRun(L[j]) \/ IsSwitchOutput(L[j])}
    IN  IF later = {} THEN Len(L) + 1
        ELSE CHOOSE j \in later : \A k \in later : j <= k

Call(ref, run_type, scene_num) ==
    [ref |-> ref, run_type |-> run_type, scene |-> Some(scene_num)]
CallOf(e) == [ref |-> e.ref, run_type |-> e.run_type, scene |-> e.scene]

RECURSIVE CallsOf(_)
CallsOf(L) ==
    IF L = <<>> THEN <<>>
    ELSE IF IsRunPatch(Head(L)) THEN <<CallOf(Head(L))>> \o CallsOf(Tail(L))
    ELSE CallsOf(Tail(L))

\* the graph invocations that handling the event of entry i caused
HooksAfter(L, i) == CallsOf(SubSeq(L, i + 1, NextBoundary(L, i) - 1))

\* the scene number a SceneSwitch event asks for while scene c is current
SceneTarget(ev, c) ==
    IF ev.scene.kind = "Fixed" THEN saturating_sub_u8(ev.scene.v, scene_offset)
    ELSE as_SceneNum(saturating_add_i16(c, ev.scene.v))

\* the sub-scene number a SubSceneSwitch event asks for while sub-scene k is current
SubSceneTarget(ev, k) ==
    IF ev.subscene.kind = "Fixed" THEN saturating_sub_u8(ev.subscene.v, scene_offset)
    ELSE as_SceneNum(saturating_add_i16(k, ev.subscene.v))

SubSceneExitCalls(A, a) ==
    IF IsSome(a) /\ ValidSubScene(A, Unwrap(a))
    THEN << Call(SubSceneRef(A, Unwrap(a), "patch"), "Exit", A),
            Call(SubSceneRef(A, Unwrap(a), "exit"), "Patch", A) >>
    ELSE <<>>

SubSceneInitCalls(B, b) ==
    IF IsSome(b) /\ ValidSubScene(B, Unwrap(b))
    THEN << Call(SubSceneRef(B, Unwrap(b), "init"), "Patch", B),
            Call(SubSceneRef(B, Unwrap(b), "patch"), "Init", B) >>
    ELSE <<>>

SceneInitCalls(B, b) ==
    << Call(GlobalRef("pre"), "Patch", B), Call(GlobalRef("patch"), "Init", B),
       Call(SceneRef(B, "init"), "Patch", B), Call(SceneRef(B, "patch"), "Init", B) >>
    \o SubSceneInitCalls(B, b)

\* the transition A/a -> B/b as the specification lists it
ListedTransition(A, a, B, b) ==
    SubSceneExitCalls(A, a)
    \o << Call(SceneRef(A, "patch"), "Exit", A), Call(SceneRef(A, "exit"), "Patch", A),
          Call(GlobalRef("post"), "Patch", A) >>
    \o SceneInitCalls(B, b)

\* the same with the global patch's run_exit before post
FullTransition(A, a, B, b) ==
    SubSceneExitCalls(A, a)
    \o << Call(SceneRef(A, "patch"), "Exit", A), Call(SceneRef(A, "exit"), "Patch", A),
          Call(GlobalRef("patch"), "Exit", A), Call(GlobalRef("post"), "Patch", A) >>
    \o SceneInitCalls(B, b)

\* entry i of the log handles a SceneSwitch from a valid scene to another valid scene
IsSceneTransition(L, i) ==
    /\ IsOutputEvent(L[i]) /\ L[i].ev.type = "SceneSwitch"
    /\ IsSome(L[i].scene) /\ ValidScene(Unwrap(L[i].scene))
    /\ LET B == SceneTarget(L[i].ev, Unwrap(L[i].scene))
       IN  ValidScene(B) /\ B # Unwrap(L[i].scene)

TransitionMatches(L, i, Expected(_, _, _, _)) ==
    LET A == Unwrap(L[i].scene)
        B == SceneTarget(L[i].ev, A)
    IN  HooksAfter(L, i) = Expected(A, L[i].subscene, B, L[i].stored[B + 1])

\* C1 as stated: a scene transition A/a -> B/b invokes exactly sub-scene
\* patch run_exit, sub-scene exit, A.patch run_exit, A.exit, post while A is
\* current, then pre, patch run_init, B.init, B.patch run_init, sub-scene init,
\* sub-scene patch run_init while B is current.
C1_AsListed ==
    \A i \in 1..Len(log) :
        IsSceneTransition(log, i) => TransitionMatches(log, i, ListedTransition)

\* C1 amended: the same sequence with the global patch invoked with run_exit
\* between A.exit and post.
C1_TransitionOrder ==
    \A i \in 1..Len(log) :
        IsSceneTransition(log, i) => TransitionMatches(log, i, FullTransition)

\* a scene transition between two scenes that both have a current sub-scene
C1_Witness ==
    \E i \in 1..Len(log) :
        /\ IsSceneTransition(log, i)
        /\ LET A == Unwrap(log[i].scene)
               B == SceneTarget(log[i].ev, A)
           IN  /\ SubSceneExitCalls(A, log[i].subscene) # <<>>
               /\ SubSceneInitCalls(B, log[i].stored[B + 1]) # <<>>
               /\ current_scene_num = Some(B)

(***************************************************************************)
(* The Runner state around a logged call.                                  *)
(***************************************************************************)
StateOf(scene, subscene, stored) ==
    [scene |-> scene, subscene |-> subscene, stored |-> stored]
StateAt(e) == StateOf(e.scene, e.subscene, e.stored)
\* the state once the event of entry i and the hooks it caused are done
StateAfter(L, i) ==
    IF NextBoundary(L, i) <= Len(L) THEN StateAt(L[NextBoundary(L, i)])
    ELSE StateOf(current_scene_num, current_subscene_num, stored_subscene_nums)

\* a step of the main loop that processed one ingress event
TickStep == pc = "batch" /\ events # <<>> /\ events' # events

(***************************************************************************)
(* C2                                                                      *)
(***************************************************************************)
IsFixedSceneSwitch(L, i) ==
    /\ IsOutputEvent(L[i]) /\ L[i].ev.type = "SceneSwitch"
    /\ L[i].ev.scene.kind = "Fixed"
    /\ ValidScene(SceneTarget(L[i].ev, 0))
    /\ L[i].scene # Some(SceneTarget(L[i].ev, 0))

\* the scene patch run of a tick is the patch of the scene current at that
\* time: a Discard patch leaves nothing, a Pass patch the ingress event
ScenePatchRuns(L) ==
    \A j \in 1..Len(L) :
        (IsTickRun(L[j]) /\ Len(L[j].ref.owner) = 1) =>
            /\ L[j].ref = SceneRef(Unwrap(L[j].scene), "patch")
            /\ LET patch == args.scenes[Unwrap(L[j].scene) + 1].patch
               IN  /\ patch = Discard => L[j].evs = <<>>
                   /\ patch = Pass => L[j].evs = <<Unwrap(L[j].ev)>>

\* a tick in which no graph output a switch runs the patch of the scene that
\* was current before it, if that is a scene
RunsThroughCurrent(c, L) ==
    ((\A j \in 1..Len(L) : ~IsSwitchOutput(L[j])) /\ IsSome(c) /\ ValidScene(Unwrap(c)))
        => \E j \in 1..Len(L) :
                IsTickRun(L[j]) /\ L[j].ref = SceneRef(Unwrap(c), "patch")

\* C2: a SceneSwitch(Fixed n) output whose target n - scene_offset is a valid
\* scene other than the current one makes that scene current, and every later
\* ingress event runs through that scene's patch until another switch.
C2_FixedSwitch ==
    /\ [](\A i \in 1..Len(log) :
            IsFixedSceneSwitch(log, i) =>
                StateAfter(log, i).scene = Some(SceneTarget(log[i].ev, 0)))
    /\ [](ScenePatchRuns(log))
    /\ [][TickStep => /\ log'[1].scene = current_scene_num
                      /\ RunsThroughCurrent(current_scene_num, log')]_vars

\* an ingress event ran through the Discard patch of the scene "Pause" that an
\* earlier SceneSwitch(2) made current, and left nothing
C2_Witness ==
    /\ args.scenes = SimpleScenes
    /\ pc = "batch"
    /\ current_scene_num = Some(1)
    /\ \A j \in 1..Len(log) : ~IsSwitchOutput(log[j])
    /\ \E j \in 1..Len(log) :
          /\ IsTickRun(log[j]) /\ log[j].ref = SceneRef(1, "patch")
          /\ log[j].evs = <<>>

(***************************************************************************)
(* C3, C4                                                                  *)
(***************************************************************************)
SetupDone == pc \in {"loop", "batch", "done"}

\* C3: after setup, current_subscene_num is Some(k) iff the current scene has
\* sub-scenes, and then k is a valid index into them.
C3_SubsceneIffSubscenes ==
    (SetupDone /\ IsSome(current_scene_num) /\ ValidScene(Unwrap(current_scene_num)))
        => LET subscenes == args.scenes[Unwrap(current_scene_num) + 1].subscenes
           IN  /\ IsSome(current_subscene_num) <=> subscenes # <<>>
               /\ IsSome(current_subscene_num)
                    => Unwrap(current_subscene_num) < Len(subscenes)

\* C4: stored_subscene_nums[i] is Some iff scene i has sub-scenes.
C4_StoredIffSubscenes ==
    \A i \in 1..Len(args.scenes) :
        IsSome(stored_subscene_nums[i]) <=> args.scenes[i].subscenes # <<>>

(***************************************************************************)
(* C5, C6                                                                  *)
(***************************************************************************)
\* entry i handles a switch event whose target is computed from state `e`
HasTarget(e) ==
    IF e.ev.type = "SceneSwitch"
    THEN e.ev.scene.kind = "Offset" => IsSome(e.scene)
    ELSE /\ IsSome(e.scene)
         /\ e.ev.subscene.kind = "Offset" => IsSome(e.subscene)

TargetIsValid(e) ==
    IF e.ev.type = "SceneSwitch"
    THEN ValidScene(SceneTarget(e.ev, IF IsSome(e.scene) THEN Unwrap(e.scene) ELSE 0))
    ELSE ValidSubScene(Unwrap(e.scene),
            SubSceneTarget(e.ev, IF IsSome(e.subscene) THEN Unwrap(e.subscene) ELSE 0))

\* C5: a switch event whose target is not a valid index runs no hook and
\* leaves current_scene_num, current_subscene_num and stored_subscene_nums alone.
C5_InvalidTargetSkipped ==
    \A i \in 1..Len(log) :
        (IsSwitchOutput(log[i]) /\ HasTarget(log[i]) /\ ~TargetIsValid(log[i]))
            => /\ HooksAfter(log, i) = <<>>
               /\ StateAfter(log, i) = StateAt(log[i])

Clamp(x, lo, hi) == Max(lo, Min(hi, x))

\* C6: Offset(d) moves to current + d clamped to the valid range; a negative
\* sum never becomes a large positive number.
C6_OffsetClamped ==
    \A i \in 1..Len(log) :
        LET e == log[i] IN
        /\ (IsOutputEvent(e) /\ e.ev.type = "SceneSwitch" /\ e.ev.scene.kind = "Offset"
            /\ IsSome(e.scene) /\ ValidScene(Unwrap(e.scene)))
             => StateAfter(log, i).scene =
                    Some(Clamp(Unwrap(e.scene) + e.ev.scene.v, 0, Len(args.scenes) - 1))
        /\ (IsOutputEvent(e) /\ e.ev.type = "SubSceneSwitch"
            /\ e.ev.subscene.kind = "Offset"
            /\ IsSome(e.scene) /\ IsSome(e.subscene)
            /\ ValidSubScene(Unwrap(e.scene), Unwrap(e.subscene)))
             => StateAfter(log, i).subscene =
                    Some(Clamp(Unwrap(e.subscene) + e.ev.subscene.v, 0,
                               Len(args.scenes[Unwrap(e.scene) + 1].subscenes) - 1))

(***************************************************************************)
(* C7                                                                      *)
(***************************************************************************)
\* entry i handles a SubSceneSwitch to a valid sub-scene of the valid current
\* scene, other than the current sub-scene
IsSubSceneTransition(L, i) ==
    /\ IsOutputEvent(L[i]) /\ L[i].ev.type = "SubSceneSwitch"
    /\ HasTarget(L[i]) /\ TargetIsValid(L[i])
    /\ L[i].subscene #
          Some(SubSceneTarget(L[i].ev,
                  IF IsSome(L[i].subscene) THEN Unwrap(L[i].subscene) ELSE 0))

\* C7: a transition between sub-scenes of the current scene runs the old
\* sub-scene's patch run_exit and exit, then the new sub-scene's init and
\* patch run_init, and nothing else; it sets current_subscene_num and the
\* current scene's entry of stored_subscene_nums and leaves the rest alone.
C7_SubSceneTransition ==
    \A i \in 1..Len(log) :
        IsSubSceneTransition(log, i) =>
            LET e == log[i]
                n == Unwrap(e.scene)
                k == SubSceneTarget(e.ev, IF IsSome(e.subscene)
                                          THEN Unwrap(e.subscene) ELSE 0)
            IN  /\ HooksAfter(log, i) =
                      SubSceneExitCalls(n, e.subscene) \o SubSceneInitCalls(n, Some(k))
                /\ StateAfter(log, i) =
                      StateOf(e.scene, Some(k), [e.stored EXCEPT ![n + 1] = Some(k)])

\* a transition from one valid sub-scene to another, with both the exit and
\* the init hooks, that moved the current sub-scene
C7_Witness ==
    \E i \in 1..Len(log) :
        /\ IsSubSceneTransition(log, i)
        /\ SubSceneExitCalls(Unwrap(log[i].scene), log[i].subscene) # <<>>
        /\ Len(HooksAfter(log, i)) = 4
        /\ StateAfter(log, i).subscene # log[i].subscene

(***************************************************************************)
(* C8                                                                      *)
(***************************************************************************)
QuitHandled == \E i \in 1..Len(log) : IsOutputEvent(log[i]) /\ log[i].ev.type = "Quit"

\* C8 as stated: once a Quit event is handled no further ingress event starts
\* to be processed: every tick starts with running true.
C8_NoFurtherIngress ==
    (pc = "batch" /\ log # <<>>) => log[1].running

\* C8 amended: a handled Quit sets running to false, running never becomes
\* true again, no further batch is collected from the backends, and the loop
\* returns once the events of the batch in progress are processed.
C8_QuitStops ==
    /\ [](QuitHandled => ~running)
    /\ [][(pc # "new" /\ ~running) => (~running' /\ ticks' = ticks)]_vars
    /\ [][(pc = "loop" /\ ~running) => pc' = "done"]_vars

\* Runner.run has returned after a Quit that was not the last event of its batch
C8_Witness ==
    /\ pc = "done" /\ ~running
    /\ log # <<>> /\ ~log[1].running

(***************************************************************************)
(* C9, C10                                                                 *)
(***************************************************************************)
TickRuns(L) == {j \in 1..Len(L) : IsTickRun(L[j])}
HandledOf(L, type) == {j \in 1..Len(L) : IsOutputEvent(L[j]) /\ L[j].ev.type = type}

\* C9: within a tick, control events are handled and hooks run only after
\* the last of the four graph invocations, the scene and sub-scene patches
\* run are those current when the tick began, and at most one Quit, one
\* SceneSwitch and one SubSceneSwitch are acted on.
C9_ControlEventsDeferred ==
    (pc = "batch" /\ log # <<>>) =>
        /\ \A j \in TickRuns(log) : \A i \in 1..(j - 1) :
              /\ ~IsHook(log[i])
              /\ ~(IsOutputEvent(log[i]) /\ IsControlEvent(log[i].ev))
        /\ \A j \in TickRuns(log) : StateAt(log[j]) = StateAt(log[1])
        /\ \A type \in {"Quit", "SceneSwitch", "SubSceneSwitch"} :
              Cardinality(HandledOf(log, type)) <= 1

\* the graphs of a tick in the order they run
TickOrder(L) ==
    \A i, j \in TickRuns(L) :
        i < j =>
            \/ L[i].ref = GlobalRef("control")
            \/ L[i].ref = GlobalRef("patch") /\ L[j].ref # GlobalRef("control")
            \/ Len(L[i].ref.owner) = 1 /\ Len(L[j].ref.owner) = 2

\* C10: a tick runs control, patch, the scene's patch and the sub-scene's
\* patch in this order, the output of each graph is the input of the next,
\* and only the stream left by the last graph is dispatched.
C10_StreamCarriesForward ==
    (pc = "batch" /\ log # <<>>) =>
        /\ TickOrder(log)
        /\ \A i, j \in TickRuns(log) :
              (i < j /\ \A k \in TickRuns(log) : ~(i < k /\ k < j))
                  => log[i].evs = <<Unwrap(log[j].ev)>>
        /\ \A j \in TickRuns(log) : \A i \in 1..(j - 1) : ~IsOutputEvent(log[i])

(***************************************************************************)
(* Reading the result of a call on a graph.                                *)
(***************************************************************************)
\* the events of s at the indices in I, in the order of s
PickIndices(s, I) ==
    LET F[i \in 0..Len(s)] ==
            IF i = 0 THEN <<>>
            ELSE IF i \in I THEN Append(F[i - 1], s[i]) ELSE F[i - 1]
    IN  F[Len(s)]

\* s without the events that occur earlier in s
FirstOccurrences(s) ==
    PickIndices(s, {i \in 1..Len(s) : \A j \in 1..(i - 1) : s[j] # s[i]})

\* the events of s that satisfy Keep, in the order of s
Kept(s, Keep(_)) == PickIndices(s, {i \in 1..Len(s) : Keep(s[i])})

\* t is s with some events left out
IsSubsequence(t, s) ==
    \E I \in SUBSET (1..Len(s)) : t = PickIndices(s, I)

\* the concatenation of the streams in ss
Concat(ss) ==
    LET F[i \in 0..Len(ss)] == IF i = 0 THEN <<>> ELSE F[i - 1] \o ss[i]
    IN  F[Len(ss)]

\* the children of a composite, each wrapped in Not
Negated(fs) == [i \in 1..Len(fs) |-> Not(fs[i])]

\* the child keeps the event e of a singleton stream
Keeps(child, e) == run(child, <<e>>) = <<e>>

(***************************************************************************)
(* C13, C14                                                                *)
(***************************************************************************)
\* C13: Chain(a, b).run_inverse gives the stream of Fork(Not(a), Not(b)).run,
\* Fork(a, b).run_inverse that of Chain(Not(a), Not(b)).run, and
\* Not(Chain(a, b)).run that of Fork(Not(a), Not(b)).run; on one event and
\* filter children, the inverse of a Chain keeps the event iff some child
\* drops it and the inverse of a Fork iff every child drops it.
C13_DeMorgan ==
    /\ (called = "run_inverse" /\ graph.node = "Chain")
          => stream = run(Fork(Negated(graph.filters)), stream_in)
    /\ (called = "run_inverse" /\ graph.node = "Fork")
          => stream = run(Chain(Negated(graph.filters)), stream_in)
    /\ (called = "run" /\ graph.node = "Not" /\ graph.filters[1].node = "Chain")
          => stream = run(Fork(Negated(graph.filters[1].filters)), stream_in)
    /\ (called = "run_inverse" /\ graph \in Pairs(FilterChildren) /\ Len(stream_in) = 1)
          => LET dropped == {i \in 1..Len(graph.filters) :
                                ~Keeps(graph.filters[i], stream_in[1])}
             IN  stream = IF \/ graph.node = "Chain" /\ dropped # {}
                             \/ graph.node = "Fork" /\ dropped = 1..Len(graph.filters)
                          THEN stream_in ELSE <<>>

\* the inverse of the Chain of the doc test on the stream of the doc test
C13_Witness ==
    /\ called = "run_inverse"
    /\ graph = Chain(<<ChannelFilter(1), KeyFilter(60)>>)
    /\ stream_in = DocStream
    /\ stream = <<ev1, ev2, ev4>>

\* C14: for a graph G of filters only, Not(Not(G)).run gives the stream of G.run.
C14_DoubleNegation ==
    (called = "run" /\ graph.node = "Not" /\ graph.filters[1].node = "Not"
        /\ graph.filters[1].filters[1] \in FilterGraphs)
        => stream = run(graph.filters[1].filters[1], stream_in)

\* Not!(Not!(KeyFilter(60))) of the doc test keeps note 60 and drops note 61
C14_Witness ==
    /\ called = "run"
    /\ graph = Not(Not(KeyFilter(60)))
    /\ stream_in = <<ev1, ev2>>
    /\ stream = <<ev1>>

(***************************************************************************)
(* C15, C16                                                                *)
(***************************************************************************)
\* C15: for every filter of the catalogue, Pass and Discard included, and
\* every event e, run_inverse on [e] leaves [e] minus what run leaves:
\* exactly one of run and run_inverse keeps e.
C15_InverseIsComplement ==
    (called = "run_inverse" /\ graph \in PureFilters /\ Len(stream_in) = 1)
        => /\ stream = IF Keeps(graph, stream_in[1]) THEN <<>> ELSE stream_in
           /\ (stream = stream_in) # (run(graph, stream_in) = stream_in)

\* C16 as stated: for every filter of the catalogue, run leaves a
\* subsequence of its input stream.
C16_Subsequence ==
    (called = "run" /\ graph \in CatalogueFilters) => IsSubsequence(stream, stream_in)

\* C16 amended: every filter of the catalogue but OscStripPrefix leaves a
\* subsequence of its input; OscStripPrefix(P) leaves the input without the
\* Osc events whose address does not start with P, with P stripped from the
\* address of every Osc event it keeps.
C16_SubsequenceOrStripped ==
    (called = "run" /\ graph \in CatalogueFilters) =>
        IF graph.node # "OscStripPrefix" THEN IsSubsequence(stream, stream_in)
        ELSE LET P == graph.arg
                 Keep(e) == e.type = "Osc" => starts_with(e.addr, P)
                 kept == Kept(stream_in, Keep)
             IN  stream = [i \in 1..Len(kept) |->
                             IF kept[i].type = "Osc"
                             THEN [kept[i] EXCEPT !.addr = strip_prefix(@, P)]
                             ELSE kept[i]]

\* OscStripPrefix kept an Osc event and stripped its address, and a filter
\* dropped the middle of a stream
C16_Witness ==
    /\ called = "run"
    /\ \/ /\ graph = OscStripPrefix(AddrPrefix)
          /\ stream_in = <<OscEvent(0, AddrLong, <<>>), ev1>>
          /\ stream = <<OscEvent(0, <<"/", "b">>, <<>>), ev1>>
       \/ /\ graph = ChannelFilter(1)
          /\ stream_in = DocStream
          /\ stream = <<ev3, ev4>>

(***************************************************************************)
(* C17, C18, C19                                                           *)
(***************************************************************************)
\* C17: Fork.run leaves, for each child in declaration order, what that
\* child leaves of the input stream itself, concatenated, without the events
\* that occur earlier in the concatenation; Fork!(ChannelFilter(1),
\* KeyFilter(60)) on [ev1, ev2, ev3, ev4] leaves [ev3, ev4, ev1].
C17_ForkRun ==
    /\ (called = "run" /\ graph.node = "Fork")
          => stream = FirstOccurrences(
                 Concat([i \in 1..Len(graph.filters) |->
                            run(graph.filters[i], stream_in)]))
    /\ (called = "run" /\ graph = Fork(<<ChannelFilter(1), KeyFilter(60)>>)
          /\ stream_in = DocStream) => stream = <<ev3, ev4, ev1>>

\* the doc test of Fork!, and a Fork whose second child would see nothing if
\* it ran on what the first child left
C17_Witness ==
    /\ called = "run"
    /\ \/ /\ graph = Fork(<<ChannelFilter(1), KeyFilter(60)>>)
          /\ stream_in = DocStream
          /\ stream = <<ev3, ev4, ev1>>
       \/ /\ graph = Fork(<<Discard, KeyFilter(60)>>)
          /\ stream_in = <<ev2, ev1>>
          /\ stream = <<ev1>>

\* the stream after the children ran on it one after the other
AppliedInTurn(fs, s) ==
    LET F[i \in 0..Len(fs)] == IF i = 0 THEN s ELSE run(fs[i], F[i - 1])
    IN  F[Len(fs)]

\* C18: Chain.run leaves what the children leave when they run left to
\* right on the one stream, without the events that occur earlier in it; with
\* filter children it leaves the first occurrences of the events that every
\* child keeps; once a child has left the stream empty, a filter or modifier
\* child after it leaves it empty.
C18_ChainRun ==
    (called = "run" /\ graph.node = "Chain") =>
        /\ stream = FirstOccurrences(AppliedInTurn(graph.filters, stream_in))
        /\ (\A i \in 1..Len(graph.filters) : graph.filters[i] \in FilterChildren)
              => LET Keep(e) == \A i \in 1..Len(graph.filters) : Keeps(graph.filters[i], e)
                 IN  stream = FirstOccurrences(Kept(stream_in, Keep))
        /\ (/\ run(graph.filters[1], stream_in) = <<>>
            /\ \A i \in 2..Len(graph.filters) :
                  graph.filters[i].node \in FilterNodes \cup ModifierNodes
                                            \cup {"Pass", "Discard"})
              => stream = <<>>

\* the doc test of Chain!, and a Chain whose last child runs on an empty stream
C18_Witness ==
    /\ called = "run"
    /\ \/ /\ graph = Chain(<<ChannelFilter(1), KeyFilter(60)>>)
          /\ stream_in = DocStream
          /\ stream = <<ev3>>
       \/ /\ graph = Chain(<<Discard, Port(2)>>)
          /\ stream_in = <<ev1, ev1>>
          /\ stream = <<>>

\* C19: dedup of a stream that dedup has left changes nothing.
C19_DedupIdempotent ==
    called = "dedup" => dedup(stream) = stream

\* dedup removed the second of two equal events
C19_Witness ==
    /\ called = "dedup"
    /\ stream_in = <<ev1, ev1>>
    /\ stream = <<ev1>>

(***************************************************************************)
(* C20                                                                     *)
(***************************************************************************)
\* the graph has a wrapper of this kind that run_init / run_exit reaches
RECURSIVE HasWrapper(_, _)
HasWrapper(f, kind) ==
    \/ f.node = kind
    \/ /\ f.node \in {"Chain", "Fork"}
       /\ \E i \in 1..Len(f.filters) : HasWrapper(f.filters[i], kind)

\* the graph with the inner graph of every Init and Exit wrapper replaced
RECURSIVE ReplaceInner(_, _)
ReplaceInner(f, inner) ==
    IF f.node \in {"Init", "Exit"} THEN [f EXCEPT !.filters = <<inner>>]
    ELSE IF f.node \in {"Chain", "Fork", "Not"}
    THEN [f EXCEPT !.filters = [i \in 1..Len(f.filters) |->
                                   ReplaceInner(f.filters[i], inner)]]
    ELSE f

\* the stream after the hook ran on the children one after the other
HookInTurn(fs, s, kind) ==
    LET F[i \in 0..Len(fs)] ==
            IF i = 0 THEN s
            ELSE IF kind = "Init" THEN run_init(fs[i], F[i - 1])
            ELSE run_exit(fs[i], F[i - 1])
    IN  F[Len(fs)]

HookResult(method, kind) ==
    called = method =>
        /\ graph.node \in {"Chain", "Fork"}
              => stream = HookInTurn(graph.filters, stream_in, kind)
        /\ graph.node = kind => stream = run(graph.filters[1], stream_in)
        /\ ~HasWrapper(graph, kind) => stream = stream_in

\* C20: run_init (run_exit) of a FilterChain calls the same hook on the
\* children in declaration order on the one stream, in Chain and in Fork
\* mode; an Init (Exit) wrapper runs its inner graph with run; a graph
\* without such a wrapper leaves the stream as it is; and run does not
\* depend on the inner graph of any Init or Exit wrapper.
C20_Hooks ==
    /\ HookResult("run_init", "Init")
    /\ HookResult("run_exit", "Exit")
    /\ called = "run" =>
          /\ stream = run(ReplaceInner(graph, Discard), stream_in)
          /\ stream = run(ReplaceInner(graph, NoteOn(70, 1)), stream_in)
          /\ graph.node \in {"Init", "Exit"} => stream = stream_in

\* run_init of a Fork whose first child empties the one stream before the
\* second child appends to it
C20_Witness ==
    /\ called = "run_init"
    /\ graph = Fork(<<InitNode(Discard), InitNode(NoteOn(60, 20))>>)
    /\ stream_in = <<NoneEvent>>
    /\ stream = <<NoteOnEvent(0, 0, 60, 20)>>

(***************************************************************************)
(* C11, C12                                                                *)
(***************************************************************************)
\* the scene "Verse", whose init graph generates one message and whose exit
\* graph generates another
IsVerseHook(e, field) ==
    /\ args.scenes = SubScenes
    /\ IsRunPatch(e) /\ e.ref = SceneRef(0, field) /\ e.run_type = "Patch"

\* C11: every run of the scene's init graph hands exactly its message to
\* the backends and every run of its exit graph exactly its message: no
\* seeding None event, no duplicate, nothing else.
C11_HookMessages ==
    \A i \in 1..Len(log) :
        /\ IsVerseHook(log[i], "init") => log[i].evs = <<NoteOnEvent(0, 0, 1, 1)>>
        /\ IsVerseHook(log[i], "exit") => log[i].evs = <<NoteOnEvent(0, 0, 2, 1)>>

\* entry i handles a SceneSwitch to a valid scene that is not current
EntersScene(L, i) ==
    /\ IsOutputEvent(L[i]) /\ L[i].ev.type = "SceneSwitch" /\ HasTarget(L[i])
    /\ TargetIsValid(L[i])
    /\ L[i].scene # Some(SceneTarget(L[i].ev, IF IsSome(L[i].scene)
                                              THEN Unwrap(L[i].scene) ELSE 0))

\* the stored sub-scene numbers after entry j of the log
StoredAfter(L, j) ==
    IF j < Len(L) THEN L[j + 1].stored ELSE stored_subscene_nums

\* C12: entering scene B by a scene switch sets current_subscene_num to
\* stored_subscene_nums[B], which is None if B has no sub-scenes and a
\* sub-scene number otherwise; the stored entry of a scene changes only
\* while that scene is current.
C12_StoredRecall ==
    /\ \A i \in 1..Len(log) :
          EntersScene(log, i) =>
              LET B == SceneTarget(log[i].ev, IF IsSome(log[i].scene)
                                              THEN Unwrap(log[i].scene) ELSE 0)
              IN  /\ StateAfter(log, i).subscene = log[i].stored[B + 1]
                  /\ IsSome(StateAfter(log, i).subscene)
                        <=> args.scenes[B + 1].subscenes # <<>>
    /\ \A j \in 1..Len(log) : \A k \in 1..Len(log[j].stored) :
          StoredAfter(log, j)[k] # log[j].stored[k] => log[j].scene = Some(k - 1)

(***************************************************************************)
(* C27 .. C30                                                              *)
(***************************************************************************)
\* graph.run was called on the one-event stream <<e>>
RanOnSingle(g) == called = "run" /\ graph = g /\ Len(stream_in) = 1

\* C27: the key-split patch maps every NoteOn / NoteOff with note n in
\* 0..127 to exactly one event, the input with channel 1 when n <= 59 and
\* channel 2 when n >= 60.
C27_KeySplit ==
    (/\ RanOnSingle(KeySplit)
     /\ stream_in[1].type \in {"NoteOn", "NoteOff"}
     /\ stream_in[1].note \in 0..MaxNote)
    => stream = << [stream_in[1] EXCEPT
                      !.channel = IF stream_in[1].note <= 59 THEN 1 ELSE 2] >>

C27_Witness ==
    /\ RanOnSingle(KeySplit)
    /\ stream_in = <<NoteOnEvent(0, 0, 72, 40)>>
    /\ stream = <<NoteOnEvent(0, 2, 72, 40)>>

\* C28: ProcessOsc(Int, |x| NoteOn(x, 30)) after OscAddrFilter("/foo"), run on
\* the single event Osc "/foo" [Int x], yields exactly the one-event stream
\* [NoteOn(0, 0, x, 30)]: the Osc event is not part of the output.
C28_ProcessOscReplaces ==
    (/\ RanOnSingle(FooNote)
     /\ stream_in[1].type = "Osc" /\ stream_in[1].addr = AddrFoo
     /\ Len(stream_in[1].args) = 1 /\ stream_in[1].args[1].t = "Int")
    => stream = <<NoteOnEvent(0, 0, as_u8(stream_in[1].args[1].v), 30)>>

\* C29: Panic on an empty stream yields exactly 32 events: on every channel
\* 0..15 one Ctrl (port 0, controller 123, value 0) and one Ctrl (port 0,
\* controller 64, value 0), and nothing else.
C29_Panic ==
    (called = "run" /\ graph = Panic /\ stream_in = <<>>)
    => /\ Len(stream) = 32
       /\ \A ch \in 0..15 : \A cc \in {123, 64} :
             Cardinality({i \in 1..Len(stream) : stream[i] = CtrlEvent(0, ch, cc, 0)}) = 1

C29_Witness ==
    /\ called = "run" /\ graph = Panic /\ stream_in = <<>>
    /\ stream[1] = CtrlEvent(0, 0, 123, 0)
    /\ stream[32] = CtrlEvent(0, 15, 64, 0)

\* C30: OscAddPrefix(P) followed by OscStripPrefix(P) leaves an Osc event
\* whose address does not begin with P as it was: same address, port, args.
C30_AddStripIdentity ==
    \A P \in Prefixes :
        (/\ RanOnSingle(AddStrip(P))
         /\ stream_in[1].type = "Osc"
         /\ ~starts_with(stream_in[1].addr, P))
        => stream = stream_in

C30_Witness ==
    /\ RanOnSingle(AddStrip(AddrPrefix))
    /\ stream_in = <<OscEvent(1, AddrOther, <<OscInt(60)>>)>>
    /\ stream = stream_in

(***************************************************************************)
(* C21                                                                     *)
(***************************************************************************)
IsFirstOffer(o) == o.backend = 1
EventsOf(os) == [j \in 1..Len(os) |-> os[j].ev]
IsBackendOutput(e) == IsOutputEvent(e) /\ ~IsControlEvent(e.ev)

\* C21: every non-control output event is offered to the backends in
\* declaration order, from the first backend on, and the dispatch of an event
\* stops at the first backend that reports a non-zero byte count; Quit,
\* SceneSwitch and SubSceneSwitch events are never offered to a backend.
C21_Dispatch ==
    /\ \A j \in 1..Len(offered) :
          /\ ~IsControlEvent(offered[j].ev)
          /\ offered[j].backend > 1 =>
                /\ j > 1
                /\ offered[j - 1].backend = offered[j].backend - 1
                /\ offered[j - 1].ev = offered[j].ev
                /\ offered[j - 1].r = 0
          /\ (offered[j].r = 0 /\ offered[j].backend < Len(backends)) =>
                /\ j < Len(offered)
                /\ offered[j + 1].backend = offered[j].backend + 1
                /\ offered[j + 1].ev = offered[j].ev
    /\ EventsOf(SelectSeq(offered, IsFirstOffer)) = sent
    /\ Len(sent) = Len(SelectSeq(log, IsBackendOutput))

\* a note that the first backend takes and a Quit handled in the same tick
C21_Witness ==
    /\ Len(backends) = 2
    /\ QuitHandled
    /\ offered = <<Offer(1, NoteOnEvent(0, 15, 64, 40), SentBytes)>>

(***************************************************************************)
(* C22, C23                                                                *)
(***************************************************************************)
SamePort(c, d) == c.dir = d.dir /\ c.port = d.port
PortsOf(dir) == IF dir = "in" THEN cargs.in_ports ELSE cargs.out_ports
PortIds(dir) == 0..(Len(PortsOf(dir)) - 1)
Claims(dir, port) ==
    {j \in 1..Len(calls) : /\ calls[j].op = "create" /\ calls[j].result = "true"
                           /\ calls[j].dir = dir /\ calls[j].port = port}

\* C22: config offers each in / out port spec to the backends in declaration
\* order and stops at the first claim: no create call on a later backend,
\* one connect call, on the claiming backend and on no other; every port
\* index is owned by at most one backend.
C22_FirstClaim ==
    /\ \A j \in 1..Len(calls) :
          /\ (calls[j].op = "create" /\ calls[j].backend > 1) =>
                /\ calls[j - 1].op = "create"
                /\ SamePort(calls[j - 1], calls[j])
                /\ calls[j - 1].backend = calls[j].backend - 1
                /\ calls[j - 1].result = "false"
          /\ (calls[j].op = "create" /\ calls[j].result = "true") =>
                /\ j < Len(calls)
                /\ calls[j + 1].op = "connect"
          /\ calls[j].op = "connect" =>
                /\ j > 1
                /\ calls[j - 1].op = "create"
                /\ calls[j - 1].result = "true"
                /\ SamePort(calls[j - 1], calls[j])
                /\ calls[j - 1].backend = calls[j].backend
    /\ \A dir \in {"in", "out"} : \A port \in PortIds(dir) :
          Cardinality(Claims(dir, port)) <= 1
    /\ \A i, k \in 1..Len(backends) :
          i # k => /\ backends[i].in_ports \cap backends[k].in_ports = {}
                   /\ {p.port : p \in backends[i].out_ports}
                        \cap {p.port : p \in backends[k].out_ports} = {}

\* the first backend claims in port 0, the second one in port 1
C22_Witness ==
    /\ config_result = "Ok"
    /\ \E j \in Claims("in", 0) : calls[j].backend = 1
    /\ \E j \in Claims("in", 1) : calls[j].backend = 2
    /\ backends[1].in_ports = {0}
    /\ backends[2].in_ports = {1}

Unclaimed ==
    UNION {{<<dir, port>> : port \in {q \in PortIds(dir) : Claims(dir, q) = {}}} :
              dir \in {"in", "out"}}

\* C23: when no backend claims a port spec, config returns an error instead
\* of Ok.
C23_UnclaimedIsError ==
    (config_result # "" /\ Unclaimed # {}) => config_result = "Err"

(***************************************************************************)
(* C24                                                                     *)
(***************************************************************************)
\* C24: when the run() of a backend returns an error during the main loop,
\* Runner::run stops and returns the error: it does not go on with the batch.
C24_RunErrorStops ==
    run_errors # {} => pc \notin {"batch", "loop", "done"}

(***************************************************************************)
(* C25                                                                     *)
(***************************************************************************)
RoundTripEvents ==
    UNION {{NoteOnEvent(p, c, 60, 40), NoteOffEvent(p, c, 60), CtrlEvent(p, c, 7, 100)} :
              p \in {0, 1}, c \in {0, 1, 15}}
    \cup {SysExEvent(p, <<240, 247>>) : p \in {0, 1}}
    \cup {OscEvent(p, AddrFoo, <<OscInt(60)>>) : p \in {0, 1}}
    \cup {NoneEvent, QuitEvent, SceneSwitchEvent(1), SubSceneSwitchEvent(1)}

Untouched == {"None", "Quit", "SceneSwitch", "SubSceneSwitch"}

\* the channel of e plus the data offset fits a u8
FitsChannel(e) ==
    e.type \in {"NoteOn", "NoteOff", "Ctrl"} => e.channel + channel_offset <= U8Max

\* one ingress event goes through the identity patch
IdentityTick == TickStep /\ args = RunArgs(Pass, <<>>, Discard, Discard, Discard)

\* C25 as stated: for every NoteOn / NoteOff / Ctrl event with a channel in
\* 0..15 and every SysEx / Osc event the egress conversion undoes the ingress
\* conversion, None and control events are not touched, and an event that goes
\* through the identity patch reaches the backends as it came in.
C25_RoundTrip ==
    /\ [](\A e \in RoundTripEvents :
             /\ user_event_to_backend(backend_event_to_user(e)) = e
             /\ e.type \in Untouched => backend_event_to_user(e) = e)
    /\ [][IdentityTick => sent' = <<Head(events)>>]_vars

\* C25 for channels that fit: the same, for the events whose channel plus
\* data_offset is at most 255.
C25_RoundTripInRange ==
    /\ [](\A e \in RoundTripEvents :
             /\ FitsChannel(e) => user_event_to_backend(backend_event_to_user(e)) = e
             /\ e.type \in Untouched => backend_event_to_user(e) = e)
    /\ [][(IdentityTick /\ FitsChannel(Head(events))) => sent' = <<Head(events)>>]_vars

\* a note on channel 15 went through the identity patch with data_offset 1
C25_Witness ==
    /\ args = RunArgs(Pass, <<>>, Discard, Discard, Discard)
    /\ channel_offset = 1
    /\ pc = "batch"
    /\ sent = <<NoteOnEvent(0, 15, 64, 40)>>
    /\ offered = <<Offer(1, NoteOnEvent(0, 15, 64, 40), SentBytes)>>

(***************************************************************************)
(* C26                                                                     *)
(***************************************************************************)
\* C26: after SIGINT is sent to a program that was configured by
\* RMididings::config and is in Runner::run, a Quit event reaches the Runner
\* and the main loop terminates: Runner::run returns.
C26_SigintQuits ==
    (sigint /\ config_result = "Ok") ~> (pc = "done")

(***************************************************************************)
(* C31                                                                     *)
(***************************************************************************)
\* the note a one-note stream holds
NoteOf(evs) == evs[1].note
\* C31: Transpose(d) run on one NoteOn/NoteOff with note n in 0..127 yields
\* the same event with note max(0, min(127, n + d)): the sum saturates at
\* 0..127 and never wraps around.
C31_TransposeSaturates ==
    (/\ called = "run" /\ graph.node = "Transpose"
     /\ Len(stream_in) = 1 /\ stream_in[1].type \in {"NoteOn", "NoteOff"}
     /\ NoteOf(stream_in) \in 0..MaxNote)
    => stream = <<[stream_in[1] EXCEPT
                      !.note = Max(0, Min(MaxNote, NoteOf(stream_in) + graph.arg))]>>

(***************************************************************************)
(* C32                                                                     *)
(***************************************************************************)
\* the filters whose key belongs to some variants only
VariantFilterNodes == FilterNodes \ TypeFilterNodes
\* the events of a stream that are of a variant filter f does not address
NotAddressed(f, evs) ==
    LET Other(e) == e.type \notin addressed(f) IN SelectSeq(evs, Other)
\* C32: a Port, Channel, Key, Ctrl, CtrlValue or OscAddr filter keeps every
\* event of a variant it does not address: run leaves these events in the
\* stream, all of them and in their order, whatever the key of the filter.
C32_OtherVariantsKept ==
    (called = "run" /\ graph.node \in VariantFilterNodes)
    => NotAddressed(graph, stream) = NotAddressed(graph, stream_in)

\* a channel filter drops a note of another channel and keeps a None event
C32_Witness ==
    /\ called = "run" /\ graph = ChannelFilter(1)
    /\ stream_in = <<ev1, NoneEvent>>
    /\ stream = <<NoneEvent>>

(***************************************************************************)
(* C33                                                                     *)
(***************************************************************************)
\* the stream a switch generator of SwitchGraphs is handed by run
HandedToSwitch(g, evs) ==
    IF g.node = "Chain" THEN retain(evs, g.filters[1], FALSE) ELSE evs
\* C33: SceneSwitch, SceneSwitchOffset, SubSceneSwitch and SubSceneSwitchOffset
\* only switch when there are events: when the generator is handed an empty
\* stream, directly or because the filter before it in a Chain discarded
\* every event, the stream after run holds no switch event.
C33_NoSwitchOnEmpty ==
    (/\ called = "run" /\ graph \in SwitchGraphs
     /\ HandedToSwitch(graph, stream_in) = <<>>)
    => \A i \in 1..Len(stream) : ~IsSwitchEvent(stream[i])

(***************************************************************************)
(* C34                                                                     *)
(***************************************************************************)
\* no two events of the stream are equal, adjacent or not
AllDistinct(evs) == \A i, j \in 1..Len(evs) : evs[i] = evs[j] => i = j
\* C34: dedup yields the first occurrence of each distinct event of its
\* input, in input order; and after run of a Chain or of a Fork no two
\* events of the stream are equal, adjacent or not.
C34_DedupFirstOccurrence ==
    /\ called = "dedup" => stream = FirstOccurrences(stream_in)
    /\ (called = "run" /\ graph.node \in {"Chain", "Fork"}) => AllDistinct(stream)

\* both branches of a Fork pass both events: the copies that are removed are
\* not adjacent to the events they repeat
C34_Witness ==
    /\ called = "run" /\ graph = Fork(<<Pass, Pass>>)
    /\ stream_in = <<ev1, ev2>>
    /\ fork_collect(graph.filters, stream_in, "run") = <<ev1, ev2, ev1, ev2>>
    /\ stream = <<ev1, ev2>>

(***************************************************************************)
(* C35                                                                     *)
(***************************************************************************)
\* what ProcessOsc f makes of one event alone: the stream its closure's graph
\* produces from the singleton stream of an Osc event, any other event itself
ProcessedAlone(f, ev) ==
    IF ev.type = "Osc" THEN run(ProcessOsc_closure(f, ev.args), <<ev>>) ELSE <<ev>>
\* C35: ProcessOsc splices in place: the stream after run holds, for each
\* event of the input in turn, the events its own processing produced (an
\* event of another variant or of another argument shape itself), whatever
\* the order in which the per-event results are spliced; equal events are
\* then deduplicated as after every graph.
C35_SplicesInPlace ==
    (called = "run" /\ graph.node = "_ProcessOsc")
    => stream = FirstOccurrences(Concat([i \in 1..Len(stream_in) |->
                                            ProcessedAlone(graph, stream_in[i])]))

(***************************************************************************)
(* C36                                                                     *)
(***************************************************************************)
\* the batch that the backends hand to a loop iteration holds a Quit event
QuitInBatch(evs) == \E i \in 1..Len(evs) : evs[i] = QuitEvent
\* C36: the Ctrl-C backend yields a Quit event only after a SIGINT: a loop
\* iteration that calls run() on every backend while no signal was delivered
\* collects no Quit event.
C36_QuitOnlyAfterSigint ==
    [][(pc = "loop" /\ pc' = "batch" /\ ~sigint) => ~QuitInBatch(events')]_vars

(***************************************************************************)
(* C37                                                                     *)
(***************************************************************************)
\* entry j of the log is the invocation of this graph with this run type
IsCall(L, j, ref, run_type) ==
    IsRunPatch(L[j]) /\ L[j].ref = ref /\ L[j].run_type = run_type
\* C37: when the Runner stops because of a Quit event, the exit patches run
\* before run() returns: once run() has returned after a tick that handled
\* a Quit, the global patch's run_exit was invoked after the Quit, and with a
\* current scene also that scene's patch with run_exit and its exit graph.
C37_ExitOnQuit ==
    (pc = "done" /\ QuitHandled)
    => \E q \in HandledOf(log, "Quit") :
          /\ \E j \in (q + 1)..Len(log) : IsCall(log, j, GlobalRef("patch"), "Exit")
          /\ IsSome(current_scene_num) =>
                LET c == Unwrap(current_scene_num)
                IN  /\ \E j \in (q + 1)..Len(log) : IsCall(log, j, SceneRef(c, "patch"), "Exit")
                    /\ \E j \in (q + 1)..Len(log) : IsCall(log, j, SceneRef(c, "exit"), "Patch")

(***************************************************************************)
(* C38                                                                     *)
(***************************************************************************)
\* the Runner fields at the time of a log entry
FieldsAt(e) == <<e.scene, e.subscene, e.stored, e.running>>
\* entry j is logged while the graph invocation of entry i has not returned:
\* in between, the events of i are handled at the depth of i and every graph
\* is invoked by a transition nested in them
Within(L, i, j) ==
    /\ i < j
    /\ L[j].depth > L[i].depth
    /\ \A k \in (i + 1)..(j - 1) :
          IF IsRunPatch(L[k]) THEN L[k].depth > L[i].depth ELSE L[k].depth >= L[i].depth
\* the invocation of entry i leads to the same invocation with the same
\* Runner fields before it returns: the Runner is deterministic, so this
\* repeats without end
Recurs(L, i, j) ==
    /\ IsRunPatch(L[i]) /\ IsRunPatch(L[j])
    /\ CallOf(L[i]) = CallOf(L[j]) /\ L[i].ev = L[j].ev
    /\ FieldsAt(L[i]) = FieldsAt(L[j])
    /\ Within(L, i, j)
\* C38: handling one ingress event (and setting up the first scene) ends
\* after finitely many graph invocations, also when a hook emits a switch
\* event: no graph invocation leads to itself in the same Runner state.
C38_Terminates ==
    \A i, j \in 1..Len(log) : ~Recurs(log, i, j)

(***************************************************************************)
(* C39                                                                     *)
(***************************************************************************)
\* C39: for every sequence of switch events the Runner never indexes out of
\* bounds: current_scene_num is None or the index of a scene, and the write
\* to stored_subscene_nums[current_scene_num] in switch_subscene_internal
\* never panics.
C39_InBounds ==
    /\ IsSome(current_scene_num) => ValidScene(Unwrap(current_scene_num))
    /\ crashed # "panic"

(***************************************************************************)
(* C40                                                                     *)
(***************************************************************************)
\* the switch event of entry e asks for the scene that is current
ToCurrentScene(e) ==
    /\ e.ev.type = "SceneSwitch" /\ IsSome(e.scene)
    /\ SceneTarget(e.ev, Unwrap(e.scene)) = Unwrap(e.scene)
\* the switch event of entry e asks for the sub-scene that is current
ToCurrentSubScene(e) ==
    /\ e.ev.type = "SubSceneSwitch" /\ IsSome(e.scene) /\ IsSome(e.subscene)
    /\ SubSceneTarget(e.ev, Unwrap(e.subscene)) = Unwrap(e.subscene)
ToCurrent(e) == IsOutputEvent(e) /\ (ToCurrentScene(e) \/ ToCurrentSubScene(e))
\* C40: a switch to the scene or to the sub-scene that is already current
\* is a no-op: it invokes no init, exit, pre or post graph, it leaves
\* current_scene_num, current_subscene_num and stored_subscene_nums as they
\* were, and a step whose only output events are such switches sends
\* nothing to a backend.
C40_SwitchToCurrentIsNoOp ==
    /\ \A i \in 1..Len(log) :
          ToCurrent(log[i])
          => /\ HooksAfter(log, i) = <<>>
             /\ i < Len(log) => ~IsHook(log[i + 1])
             /\ StateAfter(log, i) = StateAt(log[i])
    /\ (\A i \in 1..Len(log) : IsOutputEvent(log[i]) => ToCurrent(log[i]))
       => (sent = <<>> /\ offered = <<>> /\ \A i \in 1..Len(log) : ~IsHook(log[i]))

\* a tick whose only output event was a switch to the current scene
C40_Witness ==
    /\ pc = "batch" /\ log # <<>>
    /\ \E i \in 1..Len(log) : IsOutputEvent(log[i]) /\ ToCurrentScene(log[i])
    /\ \A i \in 1..Len(log) : IsOutputEvent(log[i]) => ToCurrent(log[i])
    /\ sent = <<>>

=============================================================================
